---- MODULE Spec2Model ----
(***************************************************************************)
(* Model of the bitmap transform engine of ImageIOLibrary                   *)
(* (Source/ImageIOLibrary/Private/ImageIOLibraryBPLibrary.cpp).             *)
(*                                                                         *)
(* The library is a set of static functions over TArray<FColor>.  A state  *)
(* of the model is one call: the arguments the caller passes, the name of  *)
(* the function that has run (op), the array it returned (OutBitmap) and   *)
(* whether the run indexed an array outside its bounds (fault).            *)
(*                                                                         *)
(* Numbers.  A uint8 channel is an integer 0..255.  A float is an exact    *)
(* rational [k |-> "fin", n, d] (d > 0), or [k |-> "inf"] with the sign    *)
(* in n, or [k |-> "nan"]; comparisons with a NaN are false, as in IEEE    *)
(* 754.  Indices are 0-based as in the source; Bitmap[i] of the source is  *)
(* Bitmap[i + 1] here.                                                     *)
(***************************************************************************)
EXTENDS Integers, Sequences, FiniteSets, TLC

VARIABLES
    fpconv,     \* "none", or how the build converted an out-of-range float to uint8
    op,         \* "idle" before the call, then the name of the function that ran
    BitmapA,    \* first bitmap argument (Bitmap / BitmapA of the source)
    BitmapB,    \* second bitmap argument of the blend functions
    Size,       \* FImageSize argument [X, Y]
    Filter,     \* FBitmapFilter argument
    Level,      \* float argument (Brightness / Contrast)
    Tint,       \* FLinearColor argument of the ..._ColorBitmap functions
    projection, \* arguments of SetPixelColourChannel [Pixel, ColourChannel]
    request,    \* arguments of GetBitmapFilter
                \* [BitmapFilter, OverrideColourChannel, ColourChannelOverride]
    OutBitmap,  \* the returned TArray<FColor>
    fault,      \* TRUE when the run read or wrote an array out of range
    adjust,     \* arguments of SetBitmapHueSaturationLuminance [Hue, Saturation, Luminance]
    HSV,        \* the adjusted HSV colour of each pixel, before it is converted back
    Texture2D,  \* the UTexture2D* the calls pass on [ptr, SizeX, SizeY, Mip, Locked]
    returned,   \* the bool a texture call returned
    engine,     \* what the engine calls of a texture creation answered
    texel,      \* arguments of GetTexturePixelColor [XIndex, YIndex]
    PixelColor, \* the FColor GetTexturePixelColor returned
    lockFault,  \* TRUE when a call locked bulk data that was still locked
    caller,     \* where the caller of BlurBitmapAsync is
    task,       \* the task BlurBitmapAsync scheduled [state, stale]
    delegate    \* the completion delegate [bound, alive, calls, Texture]

\* The arguments that are not bitmaps, sizes or filters.
scalars == << Level, Tint, projection, adjust >>

\* The state of the texture calls and of the asynchronous blur.
textureState == << Texture2D, returned, engine, texel, PixelColor, lockFault >>
asyncState == << caller, task, delegate >>
others == << HSV, textureState, asyncState >>

vars == << fpconv, op, BitmapA, BitmapB, Size, Filter, Level, Tint, projection, request,
           OutBitmap, fault, adjust, HSV, Texture2D, returned, engine, texel, PixelColor,
           lockFault, caller, task, delegate >>

(***************************************************************************)
(* Bounds of the model.                                                    *)
(***************************************************************************)
MaxLen == 2     \* longest bitmap argument of a blend or tone call
MaxDim == 3     \* largest Size.X and Size.Y of a filter call

(***************************************************************************)
(* FColor and the floats.                                                  *)
(***************************************************************************)
Byte == 0..255

FColor(r, g, b, a) == [R |-> r, G |-> g, B |-> b, A |-> a]

IMin(a, b) == IF a < b THEN a ELSE b

RECURSIVE GCD(_, _)
GCD(a, b) == IF b = 0 THEN a ELSE GCD(b, a % b)

IAbs(a) == IF a < 0 THEN -a ELSE a

\* The rational n/d in lowest terms with a positive denominator.
Fin(n, d) ==
    LET s == IF d < 0 THEN -1 ELSE 1
        g == GCD(IAbs(n), IAbs(d))
    IN  [k |-> "fin", n |-> (s * n) \div g, d |-> (s * d) \div g]

FInt(i) == [k |-> "fin", n |-> i, d |-> 1]
FInf(s) == [k |-> "inf", n |-> s, d |-> 1]
FNaN == [k |-> "nan", n |-> 0, d |-> 1]

\* x < y on floats; FALSE as soon as one side is a NaN.
FLess(x, y) ==
    CASE x.k = "nan" \/ y.k = "nan" -> FALSE
      [] x.k = "inf" /\ y.k = "inf" -> x.n < y.n
      [] x.k = "inf" -> x.n < 0
      [] y.k = "inf" -> y.n > 0
      [] OTHER -> x.n * y.d < y.n * x.d

FMul(x, y) ==
    CASE x.k = "nan" \/ y.k = "nan" -> FNaN
      [] x.k = "fin" /\ y.k = "fin" -> Fin(x.n * y.n, x.d * y.d)
      [] x.n = 0 \/ y.n = 0 -> FNaN
      [] OTHER -> FInf(IF (x.n < 0) = (y.n < 0) THEN 1 ELSE -1)

\* IEEE 754 division: x/0 is an infinity, 0/0 and inf/inf are NaN.
FDivide(x, y) ==
    CASE x.k = "nan" \/ y.k = "nan" -> FNaN
      [] x.k = "inf" /\ y.k = "inf" -> FNaN
      [] x.k = "inf" -> FInf(IF (x.n < 0) = (y.n < 0) THEN 1 ELSE -1)
      [] y.k = "inf" -> FInt(0)
      [] y.n = 0 /\ x.n = 0 -> FNaN
      [] y.n = 0 -> FInf(IF x.n < 0 THEN -1 ELSE 1)
      [] OTHER -> Fin(x.n * y.d, x.d * y.n)

\* FMath::Clamp:  X < Min ? Min : X < Max ? X : Max.
FClamp(x, lo, hi) == IF FLess(x, lo) THEN lo ELSE IF FLess(x, hi) THEN x ELSE hi

\* FMath::Clamp on int, the same expression.
Clamp(x, lo, hi) == IF x < lo THEN lo ELSE IF x < hi THEN x ELSE hi

\* Truncation toward zero of the rational n/d (d > 0): the float -> integer conversion.
Trunc(n, d) == IF n >= 0 THEN n \div d ELSE -((-n) \div d)

(***************************************************************************)
(* FLinearColor.  FLinearColor(FColor) reads R, G and B through the        *)
(* engine's sRGBToLinearTable and takes A / 255; the table is kept here   *)
(* in fixed point, in units of 1/LinearOne.  ToFColor(false) clamps each  *)
(* channel to [0,1] and returns FloorToInt(channel * 255.999f).           *)
(***************************************************************************)
LinearOne == 4 * 1024

sRGBToLinearTable ==
    <<    0,    1,    2,    4,    5,    6,    7,    9,   10,   11,   12,   14,   15,   16,   18,   20,
         21,   23,   25,   27,   29,   31,   33,   35,   37,   40,   42,   45,   48,   50,   53,   56,
         59,   62,   66,   69,   72,   76,   79,   83,   87,   91,   95,   99,  103,  107,  112,  116,
        121,  126,  131,  136,  141,  146,  151,  156,  162,  168,  173,  179,  185,  191,  197,  204,
        210,  217,  223,  230,  237,  244,  251,  258,  265,  273,  280,  288,  296,  304,  312,  320,
        329,  337,  346,  354,  363,  372,  381,  390,  400,  409,  419,  429,  438,  448,  458,  469,
        479,  490,  500,  511,  522,  533,  544,  556,  567,  579,  590,  602,  614,  626,  639,  651,
        664,  676,  689,  702,  715,  729,  742,  756,  769,  783,  797,  811,  826,  840,  855,  869,
        884,  899,  914,  930,  945,  961,  976,  992, 1008, 1025, 1041, 1058, 1074, 1091, 1108, 1125,
       1142, 1160, 1177, 1195, 1213, 1231, 1249, 1268, 1286, 1305, 1324, 1343, 1362, 1381, 1400, 1420,
       1440, 1460, 1480, 1500, 1521, 1541, 1562, 1583, 1604, 1625, 1647, 1668, 1690, 1712, 1734, 1756,
       1778, 1801, 1824, 1846, 1869, 1893, 1916, 1940, 1963, 1987, 2011, 2035, 2060, 2084, 2109, 2134,
       2159, 2184, 2210, 2235, 2261, 2287, 2313, 2339, 2366, 2392, 2419, 2446, 2473, 2501, 2528, 2556,
       2584, 2612, 2640, 2668, 2697, 2725, 2754, 2783, 2813, 2842, 2872, 2902, 2931, 2962, 2992, 3022,
       3053, 3084, 3115, 3146, 3178, 3209, 3241, 3273, 3305, 3338, 3370, 3403, 3436, 3469, 3502, 3535,
       3569, 3603, 3637, 3671, 3705, 3740, 3775, 3810, 3845, 3880, 3916, 3951, 3987, 4023, 4060, 4096 >>

sRGBToLinear(c) == Fin(sRGBToLinearTable[c + 1], LinearOne)

FLinearColor(p) ==
    [R |-> sRGBToLinear(p.R), G |-> sRGBToLinear(p.G), B |-> sRGBToLinear(p.B),
     A |-> Fin(p.A, 255)]

\* floor(n / d * 255999 / 1000) for 0 <= n <= d, in steps that stay below 2^31 for
\* d up to 2^27: with 256 * n = i * d + r (two divisions by d of 16 times the
\* dividend), n / d * (256 - 1/1000) = i + (1000 * r - n) / (1000 * d), and the
\* fraction is in [0,1) when 1000 * r >= n and in (-1,0) otherwise.
Floor255999(n, d) ==
    LET a1 == (16 * n) \div d
        r1 == (16 * n) % d
        a2 == (16 * r1) \div d
        r2 == (16 * r1) % d
    IN  IF r2 >= (n + 999) \div 1000 THEN 16 * a1 + a2 ELSE 16 * a1 + a2 - 1

\* FloorToInt(x * 255.999f) stored in a uint8, for a float already clamped to [0,1];
\* a NaN converts to INT_MIN, whose low byte is 0.
FloatToByte(x) ==
    LET c == FClamp(x, FInt(0), FInt(1))
    IN  IF c.k = "fin" THEN Floor255999(c.n, c.d) ELSE 0

ToFColor(l) ==
    FColor(FloatToByte(l.R), FloatToByte(l.G), FloatToByte(l.B), FloatToByte(l.A))

FAdd(x, y) ==
    CASE x.k = "nan" \/ y.k = "nan" -> FNaN
      [] x.k = "fin" /\ y.k = "fin" -> Fin(x.n * y.d + y.n * x.d, x.d * y.d)
      [] x.k = "inf" /\ y.k = "inf" -> IF x.n = y.n THEN x ELSE FNaN
      [] x.k = "inf" -> x
      [] OTHER -> y

FNeg(x) == [x EXCEPT !.n = -x.n]

(***************************************************************************)
(* Blend functions.                                                        *)
(***************************************************************************)
\* FColor::operator+= : each of R, G, B, A is Min(a + b, 255).
FColorAdd(a, b) ==
    FColor(IMin(a.R + b.R, 255), IMin(a.G + b.G, 255), IMin(a.B + b.B, 255),
           IMin(a.A + b.A, 255))

\* The value of a C++ comparison, an int.
BoolToInt(b) == IF b THEN 1 ELSE 0

\* Add_Bitmap's loop body keeping the pixel of BitmapA where the alphas differ.
AddPixelLeft(a, b) ==
    IF BoolToInt(a.A = b.A) = 0
    THEN a
    ELSE FColorAdd(a, b)

\* One iteration of Add_Bitmap's loop.  The condition of the source,
\* BitmapA[i].A == BitmapB[i].A == 0, parses as (A.A == B.A) == 0.
AddPixel(a, b) ==
    IF BoolToInt(a.A = b.A) = 0
    THEN FColor(0, 0, 0, 0)
    ELSE FColorAdd(a, b)

Add_Bitmap(A, B) ==
    IF Len(A) > 0 /\ Len(B) > 0
    THEN [i \in 1..IMin(Len(A), Len(B)) |-> AddPixel(A[i], B[i])]
    ELSE << >>

\* One iteration of Multiply_Bitmap's loop.
MultiplyPixel(a, b) ==
    LET A == FLinearColor(a)
        B == FLinearColor(b)
    IN  ToFColor([R |-> FClamp(FMul(A.R, B.R), FInt(0), FInt(1)),
                  G |-> FClamp(FMul(A.G, B.G), FInt(0), FInt(1)),
                  B |-> FClamp(FMul(A.B, B.B), FInt(0), FInt(1)),
                  A |-> FClamp(FMul(A.A, B.A), FInt(0), FInt(1))])

\* Multiply_Bitmap running over the length of its first argument.
Multiply_BitmapOverA(A, B) ==
    IF Len(A) > 0 /\ Len(B) > 0
    THEN [i \in 1..Len(A) |-> MultiplyPixel(A[i], B[IMin(i, Len(B))])]
    ELSE << >>

Multiply_Bitmap(A, B) ==
    IF Len(A) > 0 /\ Len(B) > 0
    THEN [i \in 1..IMin(Len(A), Len(B)) |-> MultiplyPixel(A[i], B[i])]
    ELSE << >>

\* Divide_Bitmap's loop body with dividend and divisor exchanged.
DividePixelSwapped(a, b) ==
    LET A == FLinearColor(a)
        B == FLinearColor(b)
    IN  ToFColor([R |-> FClamp(FDivide(B.R, A.R), FInt(0), FInt(1)),
                  G |-> FClamp(FDivide(B.G, A.G), FInt(0), FInt(1)),
                  B |-> FClamp(FDivide(B.B, A.B), FInt(0), FInt(1)),
                  A |-> FClamp(FDivide(B.A, A.A), FInt(0), FInt(1))])

\* One iteration of Divide_Bitmap's loop.
DividePixel(a, b) ==
    LET A == FLinearColor(a)
        B == FLinearColor(b)
    IN  ToFColor([R |-> FClamp(FDivide(A.R, B.R), FInt(0), FInt(1)),
                  G |-> FClamp(FDivide(A.G, B.G), FInt(0), FInt(1)),
                  B |-> FClamp(FDivide(A.B, B.B), FInt(0), FInt(1)),
                  A |-> FClamp(FDivide(A.A, B.A), FInt(0), FInt(1))])

Divide_Bitmap(A, B) ==
    IF Len(A) > 0 /\ Len(B) > 0
    THEN [i \in 1..IMin(Len(A), Len(B)) |-> DividePixel(A[i], B[i])]
    ELSE << >>

\* The TintBitmap of the ..._ColorBitmap functions, one element short.
TintBitmapShort(Num, InTint) == [i \in 1..(Num - 1) |-> ToFColor(InTint)]

\* TintBitmap after SetNumUninitialized(BitmapA.Num()) and the loop that fills it.
TintBitmap(Num, InTint) == [i \in 1..Num |-> ToFColor(InTint)]

Add_ColorBitmap(A, InTint) ==
    IF Len(A) > 0 THEN Add_Bitmap(A, TintBitmap(Len(A), InTint)) ELSE << >>

Multiply_ColorBitmap(A, InTint) ==
    IF Len(A) > 0 THEN Multiply_Bitmap(A, TintBitmap(Len(A), InTint)) ELSE << >>

Divide_ColorBitmap(A, InTint) ==
    IF Len(A) > 0 THEN Divide_Bitmap(A, TintBitmap(Len(A), InTint)) ELSE << >>

(***************************************************************************)
(* Tone functions.                                                         *)
(***************************************************************************)
\* The range mapping without the clamp of the percentage.
GetMappedRangeValueUnclamped(v) ==
    FAdd(FInt(-255), FMul(FDivide(v, FInt(2)), FInt(510)))

\* FMath::GetMappedRangeValueClamped(FVector2D(0, 2), FVector2D(-255, 255), v):
\* the percentage (v - 0) / (2 - 0) clamped to [0,1], then Lerp(-255, 255, pct).
GetMappedRangeValueClamped(v) ==
    LET pct == FClamp(FDivide(v, FInt(2)), FInt(0), FInt(1))
    IN  FAdd(FInt(-255), FMul(pct, FInt(510)))

\* ClampToByte rounding to the nearest integer.
ClampToByteRounded(x) ==
    LET c == FClamp(x, FInt(0), FInt(255))
    IN  Trunc(2 * c.n + c.d, 2 * c.d)

\* A float in [0,255] passed to a uint8 parameter: truncated.
ClampToByte(x) ==
    LET c == FClamp(x, FInt(0), FInt(255))
    IN  Trunc(c.n, c.d)

\* One iteration of SetBitmapBrightness; the FColor is built from three
\* arguments, so its alpha is the constructor's default 255.
BrightnessPixel(pixel, tempBrightness) ==
    FColor(ClampToByte(FAdd(FInt(pixel.R), tempBrightness)),
           ClampToByte(FAdd(FInt(pixel.G), tempBrightness)),
           ClampToByte(FAdd(FInt(pixel.B), tempBrightness)),
           255)

SetBitmapBrightness(Bitmap, Brightness) ==
    LET tempBrightness == GetMappedRangeValueClamped(Brightness)
    IN  [i \in 1..Len(Bitmap) |-> BrightnessPixel(Bitmap[i], tempBrightness)]

\* factor = 259 * (tempContrast + 255) / (255 * (259 - tempContrast))
ContrastFactor(tempContrast) ==
    FDivide(FMul(FInt(259), FAdd(tempContrast, FInt(255))),
            FMul(FInt(255), FAdd(FInt(259), FNeg(tempContrast))))

\* One iteration of SetBitmapContrast; alpha is the constructor's default 255.
ContrastPixel(pixel, factor) ==
    FColor(ClampToByte(FAdd(FMul(factor, FInt(pixel.R - 128)), FInt(128))),
           ClampToByte(FAdd(FMul(factor, FInt(pixel.G - 128)), FInt(128))),
           ClampToByte(FAdd(FMul(factor, FInt(pixel.B - 128)), FInt(128))),
           255)

SetBitmapContrast(Bitmap, Contrast) ==
    LET factor == ContrastFactor(GetMappedRangeValueClamped(Contrast))
    IN  [i \in 1..Len(Bitmap) |-> ContrastPixel(Bitmap[i], factor)]

(***************************************************************************)
(* Hue, saturation and luminance.  LinearRGBToHSV and HSVToLinearRGB are   *)
(* the engine's; a colour in HSV keeps the hue in R, the saturation in G   *)
(* and the value in B.                                                     *)
(***************************************************************************)
FSub(x, y) == FAdd(x, FNeg(y))

\* x <= y on floats; FALSE as soon as one side is a NaN.
FLessEq(x, y) == x.k # "nan" /\ y.k # "nan" /\ ~FLess(y, x)

FMin3(x, y, z) == LET m == IF FLess(y, x) THEN y ELSE x IN IF FLess(z, m) THEN z ELSE m
FMax3(x, y, z) == LET m == IF FLess(x, y) THEN y ELSE x IN IF FLess(m, z) THEN z ELSE m

\* floorf of a finite float.
FFloor(x) == x.n \div x.d

\* FMath::Fmod(x, y) of finite floats, y > 0: x - y * trunc(x / y).
Fmod(x, y) ==
    LET q == FDivide(x, y)
    IN  FSub(x, FMul(y, FInt(Trunc(q.n, q.d))))

\* FLinearColor::LinearRGBToHSV.
LinearRGBToHSV(c) ==
    LET RGBMin == FMin3(c.R, c.G, c.B)
        RGBMax == FMax3(c.R, c.G, c.B)
        RGBRange == FSub(RGBMax, RGBMin)
        Hue == IF RGBMax = RGBMin THEN FInt(0)
               ELSE IF RGBMax = c.R
                    THEN Fmod(FAdd(FMul(FDivide(FSub(c.G, c.B), RGBRange), FInt(60)),
                                   FInt(360)), FInt(360))
               ELSE IF RGBMax = c.G
                    THEN FAdd(FMul(FDivide(FSub(c.B, c.R), RGBRange), FInt(60)), FInt(120))
               ELSE FAdd(FMul(FDivide(FSub(c.R, c.G), RGBRange), FInt(60)), FInt(240))
        Saturation == IF RGBMax = FInt(0) THEN FInt(0) ELSE FDivide(RGBRange, RGBMax)
    IN  [R |-> Hue, G |-> Saturation, B |-> RGBMax, A |-> c.A]

\* FLinearColor::HSVToLinearRGB.
RGBSwizzle ==
    << << 1, 4, 2 >>, << 3, 1, 2 >>, << 2, 1, 4 >>, << 2, 3, 1 >>, << 4, 2, 1 >>, << 1, 2, 3 >> >>

HSVToLinearRGB(c) ==
    LET HDiv60 == FDivide(c.R, FInt(60))
        HDiv60_Floor == FFloor(HDiv60)
        HDiv60_Fraction == FSub(HDiv60, FInt(HDiv60_Floor))
        RGBValues ==
            << c.B,
               FMul(c.B, FSub(FInt(1), c.G)),
               FMul(c.B, FSub(FInt(1), FMul(HDiv60_Fraction, c.G))),
               FMul(c.B, FSub(FInt(1), FMul(FSub(FInt(1), HDiv60_Fraction), c.G))) >>
        SwizzleIndex == HDiv60_Floor % 6
    IN  [R |-> RGBValues[RGBSwizzle[SwizzleIndex + 1][1]],
         G |-> RGBValues[RGBSwizzle[SwizzleIndex + 1][2]],
         B |-> RGBValues[RGBSwizzle[SwizzleIndex + 1][3]],
         A |-> c.A]

\* ToFColor(true) encodes R, G and B before the conversion to a byte:
\* x <= 0.0031308 ? x * 12.92 : pow(x, 1 / 2.4) * 1.055 - 0.055.  The encoding grows
\* with x, so the byte is the number of b in 1..255 whose least x, kept here in
\* units of 1/EncodeOne and rounded up, is at most x.
EncodeOne == 1024 * 1024

sRGBEncodeTable ==
    <<
            318,     635,     952,    1269,    1586,    1903,    2220,    2537,    2854,    3171,    3495,    3839,
           4202,    4584,    4985,    5407,    5848,    6310,    6792,    7295,    7820,    8365,    8933,    9522,
          10133,   10766,   11422,   12101,   12803,   13527,   14276,   15048,   15843,   16663,   17507,   18375,
          19268,   20186,   21128,   22096,   23090,   24108,   25153,   26224,   27320,   28443,   29593,   30769,
          31972,   33202,   34459,   35743,   37055,   38395,   39762,   41158,   42581,   44033,   45514,   47023,
          48561,   50127,   51723,   53348,   55003,   56687,   58401,   60144,   61918,   63722,   65556,   67420,
          69315,   71241,   73198,   75185,   77204,   79254,   81335,   83448,   85593,   87769,   89978,   92218,
          94491,   96796,   99133,  101504,  103906,  106342,  108811,  111313,  113848,  116416,  119018,  121653,
         124322,  127025,  129763,  132534,  135339,  138179,  141053,  143962,  146905,  149883,  152896,  155944,
         159028,  162146,  165300,  168490,  171715,  174976,  178273,  181605,  184974,  188379,  191820,  195297,
         198811,  202362,  205949,  209574,  213235,  216933,  220668,  224441,  228251,  232098,  235983,  239906,
         243866,  247864,  251901,  255975,  260087,  264238,  268427,  272655,  276921,  281226,  285570,  289953,
         294374,  298835,  303335,  307874,  312453,  317071,  321728,  326426,  331163,  335939,  340756,  345613,
         350510,  355447,  360425,  365443,  370502,  375601,  380741,  385921,  391143,  396405,  401709,  407054,
         412440,  417867,  423336,  428846,  434398,  439992,  445627,  451305,  457024,  462785,  468589,  474434,
         480322,  486253,  492226,  498241,  504300,  510401,  516544,  522731,  528961,  535234,  541550,  547909,
         554311,  560757,  567247,  573780,  580357,  586978,  593642,  600351,  607103,  613899,  620740,  627625,
         634554,  641528,  648546,  655609,  662716,  669869,  677066,  684308,  691595,  698927,  706304,  713726,
         721194,  728707,  736265,  743869,  751519,  759214,  766955,  774742,  782575,  790454,  798379,  806350,
         814367,  822431,  830541,  838698,  846901,  855150,  863447,  871790,  880180,  888616,  897100,  905631,
         914209,  922834,  931507,  940227,  948994,  957809,  966671,  975581,  984539,  993545, 1002598, 1011699,
        1020849, 1030046, 1039292
    >>

\* [q, r] with n * 16^k = q * d + r, 0 <= r < d, for 0 <= n <= d, digit by digit.
RECURSIVE FixedDigits(_, _, _)
FixedDigits(n, d, k) ==
    IF k = 0 THEN [q |-> n \div d, r |-> n % d]
    ELSE LET p == FixedDigits(n, d, k - 1)
         IN  [q |-> 16 * p.q + (16 * p.r) \div d, r |-> (16 * p.r) % d]

LinearToSRGBByte(x) ==
    LET c == FClamp(x, FInt(0), FInt(1))
        v == FixedDigits(c.n, c.d, 5).q
    IN  Cardinality({b \in 1..255 : sRGBEncodeTable[b] <= v})

ToFColorSRGB(l) ==
    FColor(LinearToSRGBByte(l.R), LinearToSRGBByte(l.G), LinearToSRGBByte(l.B),
           FloatToByte(l.A))

\* The sum of the hues clamped into [0,360] instead of taken back into it.
ClampedHue(newHue) == FClamp(newHue, FInt(0), FInt(360))

\* The hue of a pixel after the adjustment, the sum taken back into [0,360].
LoopedHue(newHue) ==
    IF FLessEq(FInt(360), newHue) THEN FClamp(FSub(newHue, FInt(360)), FInt(0), FInt(360))
    ELSE IF FLessEq(newHue, FInt(0)) THEN FClamp(FAdd(newHue, FInt(360)), FInt(0), FInt(360))
    ELSE newHue

\* The body of the loop of SetBitmapHueSaturationLuminance up to the conversion back.
AdjustedHSV(pixel, Hue, Saturation, Luminance) ==
    LET tempHueValue == FClamp(Hue, FInt(0), FInt(360))
        hsv == LinearRGBToHSV(FLinearColor(pixel))
    IN  [R |-> LoopedHue(FAdd(hsv.R, tempHueValue)),
         G |-> FClamp(FMul(hsv.G, Saturation), FInt(0), FInt(1)),
         B |-> FClamp(FMul(hsv.B, Luminance), FInt(0), FInt(1)),
         A |-> hsv.A]

SetBitmapHueSaturationLuminance(Bitmap, Hue, Saturation, Luminance) ==
    [i \in 1..Len(Bitmap) |->
        ToFColorSRGB(HSVToLinearRGB(AdjustedHSV(Bitmap[i], Hue, Saturation, Luminance)))]

(***************************************************************************)
(* Filters.                                                                *)
(***************************************************************************)
ColourChannels == {"RGB", "RGBA", "R", "G", "B", "A", "Greyscale"}

FImageSize(x, y) == [X |-> x, Y |-> y]

\* FBitmapFilter(InSize, InFilter, InFactor, InBias, InColourChannel)
FBitmapFilter(InSize, InFilter, InFactor, InBias, InColourChannel) ==
    [Size |-> InSize, Filter |-> InFilter, Factor |-> InFactor, Bias |-> InBias,
     ColourChannel |-> InColourChannel]

\* FBitmapFilter(): the 3x3 identity on channel mode RGB.
DefaultBitmapFilter ==
    FBitmapFilter(FImageSize(3, 3),
                  << FInt(0), FInt(0), FInt(0),
                     FInt(0), FInt(1), FInt(0),
                     FInt(0), FInt(0), FInt(0) >>,
                  FInt(1), FInt(0), "RGB")

BitmapFilterTypes ==
    {"Identity", "Sharpen", "BoxBlur", "Gaussian1", "Gaussian2", "EdgeDetection"}

Weights(ints) == [i \in 1..Len(ints) |-> FInt(ints[i])]

\* 0.11111111f is the float 14913081/2^27, just above 1/9.  For every uint8 t and c
\* the float t + c * 0.11111111f truncates to the same integer as t + c/9, so the
\* factor is kept as 1/9.
BoxBlurFactor == Fin(1, 9)

\* GetBitmapFilter returning the identity kernel of FBitmapFilter() for every type.
GetBitmapFilterDefault(BitmapFilter, OverrideColourChannel, ColourChannelOverride) ==
    DefaultBitmapFilter

GetBitmapFilter(BitmapFilter, OverrideColourChannel, ColourChannelOverride) ==
    LET chan(default) == IF OverrideColourChannel THEN ColourChannelOverride ELSE default
    IN  CASE BitmapFilter = "Identity" ->
               FBitmapFilter(FImageSize(3, 3), Weights(<< 0,0,0, 0,1,0, 0,0,0 >>),
                             FInt(1), FInt(0), chan("RGBA"))
          [] BitmapFilter = "BoxBlur" ->
               FBitmapFilter(FImageSize(3, 3), Weights(<< 1,1,1, 1,1,1, 1,1,1 >>),
                             BoxBlurFactor, FInt(0), chan("RGBA"))
          [] BitmapFilter = "Gaussian1" ->
               FBitmapFilter(FImageSize(3, 3), Weights(<< 1,2,1, 2,4,2, 1,2,1 >>),
                             Fin(1, 16), FInt(0), chan("RGBA"))
          [] BitmapFilter = "Gaussian2" ->
               FBitmapFilter(FImageSize(5, 5),
                             Weights(<< 1,4,6,4,1, 4,16,24,16,4, 6,24,36,24,6,
                                        4,16,24,16,4, 1,4,6,4,1 >>),
                             Fin(1, 256), FInt(0), chan("RGBA"))
          [] BitmapFilter = "Sharpen" ->
               FBitmapFilter(FImageSize(3, 3), Weights(<< 0,-1,0, -1,5,-1, 0,-1,0 >>),
                             FInt(1), FInt(0), chan("RGBA"))
          [] BitmapFilter = "EdgeDetection" ->
               FBitmapFilter(FImageSize(3, 3), Weights(<< -1,-1,-1, -1,8,-1, -1,-1,-1 >>),
                             FInt(1), FInt(0), chan("Greyscale"))
          [] OTHER -> DefaultBitmapFilter

\* The pixels (as 65536 * R + 256 * G + B) whose sum R * 0.2989 + G * 0.5870 +
\* B * 0.1140 is a whole number that the double-precision evaluation of the source
\* expression, products and sums taken from left to right, falls just below.
GreyscaleRoundedDown ==
    {
         18456,    32423,    36912,    41180,    45669,    46611,    60578,    65067,
        660742,   669499,   671162,   675651,   679198,   707353,   709958,  1315332,
       1321484,  1324089,  1338056,  1338998,  1339940,  1342545,  1346813,  1347755,
       1348697,  1349639,  1351302,  1352244,  1355791,  1357454,  1358396,  1361943,
       1366211,  1981284,  1982226,  1988378,  1999740,  2000682,  2004229,  2008497,
       2009439,  2010381,  2012986,  2627117,  2630664,  2639421,  2642968,  2648178,
       2649120,  2661424,  2673728,  2676333,  2677996,  2679880,  2682485,  2684148,
       2685090,  2686032,  3286917,  3306315,  3310583,  3312467,  3315072,  3319561,
       3321224,  3325713,  3329981,  3334470,  3336133,  3338017,  3338738,  3340622,
       3948601,  3962568,  3963510,  3964452,  3967057,  3973209,  3976756,  3990723,
       3992607,  3995212,  3996875,  4592550,  4602249,  4603191,  4611006,  4611948,
       4615495,  4624252,  4628741,  4635614,  4637498,  4640103,  4648860,  5254234,
       5255176,  5261328,  5268201,  5270085,  5272690,  5274353,  5278842,  5283331,
       5285936,  5287599,  5289483,  5296356,  5298240,  5921128,  5922070,  5929885,
       5930827,  5934374,  5950225,  6578323,  6591569,  6599384,  6610025,  6612630,
       6615235,  7215399,  7218004,  7218946,  7223214,  7225098,  7227703,  7231971,
       7236460,  7242612,  7251369,  7253253,  7255858,  7260126,  7262010,  7264615,
       7266278,  7268162,  7270767,  7273372,  7883956,  7892713,  7894597,  7897202,
       7912111,  7920868,  7922752,  7925357,  7927020,  7928904,  8533336,  8542093,
       8546582,  8567643,  8570248,  8579005,  8580889,  8583494,  9178227,  9189589,
       9191473,  9195020,  9195741,  9200230,  9202835,  9206382,  9215139,  9217744,
       9219628,  9223896,  9228385,  9230990,  9239747,  9843458,  9852215,  9860972,
       9867124,  9880370, 10488349, 10495222, 10499711, 10505863, 10508468, 10510352,
      10522656, 10525261, 10526924, 10529529, 10538507, 10540170, 10542775, 10545380,
      10550811, 11177246, 11181514, 11192155, 11194760, 11205401, 11814101, 11815985,
      11842256, 11844140, 11852897, 11855502, 11859049, 11861654, 12463481, 12467970,
      12472238, 12474122, 12475785, 12476727, 12484542, 12487147, 12495183, 12497788,
      12500393, 12504882, 12509150, 12511034, 12513639, 13124223, 13134864, 13147168,
      13149773, 13154041, 13163019, 13169892, 13171776, 13773603, 13777871, 13782360,
      13797269, 13801758, 13806026, 13810515, 13814783, 13823761, 14422041, 14427251,
      14430798, 14436008, 14437892, 14440497, 14444044, 14450196, 14452801, 14455406,
      14457069, 14466768, 14468652, 14470315, 14472920, 14478351, 14480956, 14482619,
      15087993, 15092482, 15104786, 15107391, 15109054, 15111659, 15122300, 15124905,
      15132941, 15134604, 15135546, 15137209, 15138151, 15761039, 15774285, 15787531,
      15789194, 15791799, 16384869, 16385811, 16392684, 16393626, 16398115, 16399778,
      16404267, 16407814, 16408535, 16410419, 16413024, 16414687, 16425328, 16426270,
      16427933, 16430538, 16435027, 16435969, 16438574, 16441179, 16443784, 16448273 }

\* uint8 greyscaledPixel = R * 0.2989 + G * 0.5870 + B * 0.1140, truncated: the sum
\* in double precision is within 1e-12 of the exact sum, so it truncates as the
\* exact sum does, except where the exact sum is a whole number and the double
\* is below it.
Greyscaled(Pixel) ==
    IF 65536 * Pixel.R + 256 * Pixel.G + Pixel.B \in GreyscaleRoundedDown
    THEN (2989 * Pixel.R + 5870 * Pixel.G + 1140 * Pixel.B) \div 10000 - 1
    ELSE (2989 * Pixel.R + 5870 * Pixel.G + 1140 * Pixel.B) \div 10000

\* SetPixelColourChannel with an opaque alpha in mode A.
SetPixelColourChannelOpaque(Pixel, ColourChannel) ==
    IF ColourChannel = "RGBA" THEN Pixel
    ELSE IF ColourChannel = "A" THEN FColor(Pixel.A, Pixel.A, Pixel.A, 255)
    ELSE IF ColourChannel = "Greyscale"
    THEN FColor(Greyscaled(Pixel), Greyscaled(Pixel), Greyscaled(Pixel), 255)
    ELSE FColor(IF ColourChannel \in {"RGB", "R"} THEN Pixel.R ELSE 0,
                IF ColourChannel \in {"RGB", "G"} THEN Pixel.G ELSE 0,
                IF ColourChannel \in {"RGB", "B"} THEN Pixel.B ELSE 0,
                255)

SetPixelColourChannel(Pixel, ColourChannel) ==
    CASE ColourChannel = "RGB" -> FColor(Pixel.R, Pixel.G, Pixel.B, 255)
      [] ColourChannel = "RGBA" -> FColor(Pixel.R, Pixel.G, Pixel.B, Pixel.A)
      [] ColourChannel = "R" -> FColor(Pixel.R, 0, 0, 255)
      [] ColourChannel = "G" -> FColor(0, Pixel.G, 0, 255)
      [] ColourChannel = "B" -> FColor(0, 0, Pixel.B, 255)
      [] ColourChannel = "A" -> FColor(Pixel.A, Pixel.A, Pixel.A, 0)
      [] ColourChannel = "Greyscale" ->
           FColor(Greyscaled(Pixel), Greyscaled(Pixel), Greyscaled(Pixel), 255)

\* The conversion of a float to uint8 (the += on tempRed, tempGreen, tempBlue), for
\* the float already truncated to the integer t.  In range it is t.  Out of range
\* it is undefined: a build that converts through a signed 32-bit integer keeps
\* the low byte ("wrap"); a build that converts through an unsigned 32-bit
\* integer with saturation gives 0 for a negative value and the low byte
\* otherwise ("saturate").
FloatConversions == {"wrap", "saturate"}

CastUint8(t, conv) ==
    IF t \in Byte THEN t
    ELSE IF conv = "saturate" /\ t < 0 THEN 0
    ELSE t % 256

\* Accumulate without the bias.
AccumulateNoBias(temp, channel, weight, Flt) ==
    Trunc(temp * weight.d * Flt.Factor.d + channel * weight.n * Flt.Factor.n,
          weight.d * Flt.Factor.d)

\* The float temp + channel * (filter[nFilterIndex] * Filter.Factor) + Filter.Bias of
\* the += statements, truncated toward zero; the sum is taken as the exact rational
\* over the common denominator den.
Accumulate(temp, channel, weight, Flt) ==
    LET den == weight.d * Flt.Factor.d * Flt.Bias.d
        num == temp * den + channel * weight.n * Flt.Factor.n * Flt.Bias.d
                          + Flt.Bias.n * weight.d * Flt.Factor.d
    IN  Trunc(num, den)

\* NPixelIndex without the centring of the kernel on the working pixel.
NPixelIndexNoCentre(Num, SizeX, Flt, X, Y, filterX, filterY) ==
    Clamp((Y + filterY) * SizeX + (X + filterX), 0, Num - 1)

\* Index of the source pixel that kernel cell (filterX, filterY) samples for (X, Y).
NPixelIndex(Num, SizeX, Flt, X, Y, filterX, filterY) ==
    LET nPixelX == X + filterX - (Flt.Size.X \div 2)
        nPixelY == Y + filterY - (Flt.Size.Y \div 2)
    IN  Clamp(nPixelY * SizeX + nPixelX, 0, Num - 1)

\* Index of the weight that kernel cell (filterX, filterY) reads.
NFilterIndex(Flt, filterX, filterY) ==
    Clamp(filterY * Flt.Size.X + filterX, 0, Len(Flt.Filter) - 1)

\* The accumulators after one kernel cell: r, g, b are the truncated floats of the
\* three += statements, ub tells whether a conversion so far was out of range.
NextTemp(ub, r, g, b, conv) ==
    [R |-> CastUint8(r, conv), G |-> CastUint8(g, conv), B |-> CastUint8(b, conv),
     ub |-> ub \/ r \notin Byte \/ g \notin Byte \/ b \notin Byte]

\* The body of the inner loops for one kernel cell: n is the sampled pixel
\* Bitmap[nPixelIndex], w the weight filter[nFilterIndex].
FilterCell(temp, n, w, Flt, conv) ==
    NextTemp(temp.ub, Accumulate(temp.R, n.R, w, Flt), Accumulate(temp.G, n.G, w, Flt),
             Accumulate(temp.B, n.B, w, Flt), conv)

\* The two inner loops of ApplyBitmapFilter from cell c on (filterY = c \div width,
\* filterX = c % width), with the three uint8 accumulators in temp.
RECURSIVE FilterCells(_, _, _, _, _, _, _, _)
FilterCells(Bitmap, SizeX, Flt, X, Y, c, temp, conv) ==
    IF temp.R \notin Byte \/ Flt.Size.X <= 0 \/ c >= Flt.Size.X * Flt.Size.Y THEN temp
    ELSE FilterCells(Bitmap, SizeX, Flt, X, Y, c + 1,
                     FilterCell(temp,
                                Bitmap[NPixelIndex(Len(Bitmap), SizeX, Flt, X, Y,
                                                   c % Flt.Size.X, c \div Flt.Size.X) + 1],
                                Flt.Filter[NFilterIndex(Flt, c % Flt.Size.X, c \div Flt.Size.X) + 1],
                                Flt, conv),
                     conv)

\* TArray::EmplaceAt(Index, Item): Item inserted before the element at Index.
EmplaceAt(arr, Index, Item) ==
    SubSeq(arr, 1, Index) \o << Item >> \o SubSeq(arr, Index + 1, Len(arr))

\* Working pixel's index in the bitmap.
PixelIndex(Num, SizeX, X, Y) == Clamp(Y * SizeX + X, 0, Num - 1)

\* The pixel ApplyBitmapFilter emplaces for the accumulators temp.
NewPixel(temp, tempAlpha, ColourChannel) ==
    [pixel |-> SetPixelColourChannel(FColor(temp.R, temp.G, temp.B, tempAlpha), ColourChannel),
     ub |-> temp.ub]

\* The new pixel for (X, Y), and whether a conversion was out of range.
FilteredPixel(Bitmap, SizeX, Flt, X, Y, conv) ==
    NewPixel(FilterCells(Bitmap, SizeX, Flt, X, Y, 0,
                         [R |-> 0, G |-> 0, B |-> 0, ub |-> FALSE], conv),
             IF Flt.ColourChannel = "RGBA"
             THEN Bitmap[PixelIndex(Len(Bitmap), SizeX, X, Y) + 1].A
             ELSE 255,
             Flt.ColourChannel)

\* OutBitmap.EmplaceAt(pixelIndex, ...) on the output built so far.
Emplaced(acc, pixelIndex, p) ==
    [out |-> EmplaceAt(acc.out, pixelIndex, p.pixel), ub |-> acc.ub \/ p.ub]

\* The two outer loops of ApplyBitmapFilter from iteration k on (Y = k \div Size.X,
\* X = k % Size.X), with the output built so far in acc.out.
RECURSIVE FilterPixels(_, _, _, _, _, _)
FilterPixels(Bitmap, Sz, Flt, k, acc, conv) ==
    IF Len(acc.out) # k \/ Sz.X <= 0 \/ k >= Sz.X * Sz.Y THEN acc
    ELSE FilterPixels(Bitmap, Sz, Flt, k + 1,
                      Emplaced(acc, PixelIndex(Len(Bitmap), Sz.X, k % Sz.X, k \div Sz.X),
                               FilteredPixel(Bitmap, Sz.X, Flt, k % Sz.X, k \div Sz.X, conv)),
                      conv)

\* The array accesses of a run of ApplyBitmapFilter that are out of range: a read of
\* Bitmap or of the weights at an index outside the array, or an EmplaceAt at an
\* index that is negative or beyond the output built so far.
FilterFaults(Bitmap, Sz, Flt) ==
    \E Y \in 0..(Sz.Y - 1), X \in 0..(Sz.X - 1) :
        LET pixelIndex == PixelIndex(Len(Bitmap), Sz.X, X, Y)
        IN  \/ Flt.ColourChannel = "RGBA" /\ pixelIndex \notin 0..(Len(Bitmap) - 1)
            \/ pixelIndex \notin 0..(Y * Sz.X + X)
            \/ \E filterY \in 0..(Flt.Size.Y - 1), filterX \in 0..(Flt.Size.X - 1) :
                  \/ NPixelIndex(Len(Bitmap), Sz.X, Flt, X, Y, filterX, filterY)
                        \notin 0..(Len(Bitmap) - 1)
                  \/ NFilterIndex(Flt, filterX, filterY) \notin 0..(Len(Flt.Filter) - 1)

\* The run of ApplyBitmapFilter on a build that converts as conv: the returned array
\* (out) and whether a float -> uint8 conversion of the run was out of range (ub).
ApplyBitmapFilter(Bitmap, Sz, Flt, conv) ==
    FilterPixels(Bitmap, Sz, Flt, 0, [out |-> << >>, ub |-> FALSE], conv)

(***************************************************************************)
(* The calls.  Each action is one call of a library function on the        *)
(* arguments held in the state.                                            *)
(***************************************************************************)
SeqsUpTo(S, n) == UNION {[1..m -> S] : m \in 0..n}

CallAdd_Bitmap ==
    /\ op = "idle"
    /\ op' = "Add_Bitmap"
    /\ OutBitmap' = Add_Bitmap(BitmapA, BitmapB)
    /\ fault' = FALSE
    /\ UNCHANGED << fpconv, BitmapA, BitmapB, Size, Filter, scalars, others, request >>

CallMultiply_Bitmap ==
    /\ op = "idle"
    /\ op' = "Multiply_Bitmap"
    /\ OutBitmap' = Multiply_Bitmap(BitmapA, BitmapB)
    /\ fault' = FALSE
    /\ UNCHANGED << fpconv, BitmapA, BitmapB, Size, Filter, scalars, others, request >>

CallDivide_Bitmap ==
    /\ op = "idle"
    /\ op' = "Divide_Bitmap"
    /\ OutBitmap' = Divide_Bitmap(BitmapA, BitmapB)
    /\ fault' = FALSE
    /\ UNCHANGED << fpconv, BitmapA, BitmapB, Size, Filter, scalars, others, request >>

CallAdd_ColorBitmap ==
    /\ op = "idle"
    /\ op' = "Add_ColorBitmap"
    /\ OutBitmap' = Add_ColorBitmap(BitmapA, Tint)
    /\ fault' = FALSE
    /\ UNCHANGED << fpconv, BitmapA, BitmapB, Size, Filter, scalars, others, request >>

CallMultiply_ColorBitmap ==
    /\ op = "idle"
    /\ op' = "Multiply_ColorBitmap"
    /\ OutBitmap' = Multiply_ColorBitmap(BitmapA, Tint)
    /\ fault' = FALSE
    /\ UNCHANGED << fpconv, BitmapA, BitmapB, Size, Filter, scalars, others, request >>

CallDivide_ColorBitmap ==
    /\ op = "idle"
    /\ op' = "Divide_ColorBitmap"
    /\ OutBitmap' = Divide_ColorBitmap(BitmapA, Tint)
    /\ fault' = FALSE
    /\ UNCHANGED << fpconv, BitmapA, BitmapB, Size, Filter, scalars, others, request >>

CallSetPixelColourChannel ==
    /\ op = "idle"
    /\ op' = "SetPixelColourChannel"
    /\ OutBitmap' = << SetPixelColourChannel(projection.Pixel, projection.ColourChannel) >>
    /\ fault' = FALSE
    /\ UNCHANGED << fpconv, BitmapA, BitmapB, Size, Filter, scalars, others, request >>

CallSetBitmapBrightness ==
    /\ op = "idle"
    /\ op' = "SetBitmapBrightness"
    /\ OutBitmap' = SetBitmapBrightness(BitmapA, Level)
    /\ fault' = FALSE
    /\ UNCHANGED << fpconv, BitmapA, BitmapB, Size, Filter, scalars, others, request >>

CallSetBitmapContrast ==
    /\ op = "idle"
    /\ op' = "SetBitmapContrast"
    /\ OutBitmap' = SetBitmapContrast(BitmapA, Level)
    /\ fault' = FALSE
    /\ UNCHANGED << fpconv, BitmapA, BitmapB, Size, Filter, scalars, others, request >>

\* The caller asks the library for one of the hard-coded filters, with an override
\* of its colour channel mode by any of the modes, or without one; the override
\* argument of a call without override takes two of the modes.
IgnoredOverrides == {"RGB", "Greyscale"}

CallGetBitmapFilter ==
    /\ op = "idle"
    /\ op' = "GetBitmapFilter"
    /\ \E t \in BitmapFilterTypes, o \in BOOLEAN, c \in ColourChannels :
          /\ o \/ c \in IgnoredOverrides
          /\ request' = [BitmapFilter |-> t, OverrideColourChannel |-> o,
                          ColourChannelOverride |-> c]
          /\ Filter' = GetBitmapFilter(t, o, c)
    /\ UNCHANGED << fpconv, BitmapA, BitmapB, Size, scalars, others, OutBitmap, fault >>

\* Filters a caller builds itself with the FBitmapFilter constructors: a 3x3 sum
\* without normalisation, kernels whose weight count is not Size.X * Size.Y (none,
\* fewer, more), an empty kernel, and an even-sized kernel with a bias.
CallerFilters ==
    { FBitmapFilter(FImageSize(3, 3), Weights(<< 1,1,1, 1,1,1, 1,1,1 >>),
                    FInt(1), FInt(0), "RGB"),
      FBitmapFilter(FImageSize(3, 3), << >>, FInt(1), FInt(0), "RGB"),
      FBitmapFilter(FImageSize(3, 3), Weights(<< 0, 0, 0, 1 >>), FInt(1), FInt(0), "RGB"),
      FBitmapFilter(FImageSize(2, 2), Weights(<< 0, 0, 0, 1, 1 >>), FInt(1), FInt(0), "RGBA"),
      FBitmapFilter(FImageSize(0, 0), << >>, FInt(1), FInt(0), "RGBA"),
      FBitmapFilter(FImageSize(2, 2), Weights(<< 1, 1, 1, 1 >>), Fin(1, 4), FInt(1), "RGB") }

CallFBitmapFilter ==
    /\ op = "idle"
    /\ op' = "FBitmapFilter"
    /\ Filter' \in CallerFilters
    /\ UNCHANGED << fpconv, BitmapA, BitmapB, Size, scalars, others, request, OutBitmap,
                    fault >>

\* What a run that went out of range may leave behind: nothing (the range check
\* of the array aborted it), or whatever memory held.
UndefinedOutputs(Sz, Colours) ==
    { [i \in 1..n |-> g] : n \in {0, Sz.X * Sz.Y}, g \in Colours }

CallApplyBitmapFilter ==
    /\ op \in {"idle", "GetBitmapFilter", "FBitmapFilter"}
    /\ op' = "ApplyBitmapFilter"
    /\ IF FilterFaults(BitmapA, Size, Filter)
       THEN /\ fault' = TRUE
            /\ fpconv' = "none"
            /\ OutBitmap' \in UndefinedOutputs(Size, {FColor(0, 0, 0, 0), FColor(205, 205, 205, 205)})
       ELSE \E run \in {ApplyBitmapFilter(BitmapA, Size, Filter, "wrap")} :
                /\ fault' = FALSE
                /\ IF run.ub
                   THEN \E conv \in FloatConversions :
                           /\ fpconv' = conv
                           /\ OutBitmap' = IF conv = "wrap" THEN run.out
                                           ELSE ApplyBitmapFilter(BitmapA, Size, Filter, conv).out
                   ELSE /\ fpconv' = "none"
                        /\ OutBitmap' = run.out
    /\ UNCHANGED << BitmapA, BitmapB, Size, Filter, scalars, others, request >>

\* A null UTexture2D*.
NullTexture == [ptr |-> "nullptr", SizeX |-> 0, SizeY |-> 0, Mip |-> << >>, Locked |-> FALSE]

\* The engine calls of a texture creation, each answering success.
EngineCalls ==
    {"FileExists", "LoadFileToArray", "DetectImageFormat", "CreateImageWrapper",
     "SetCompressed", "GetRaw", "CreateTransient", "GetViewportScreenShot"}

\* No task is scheduled.
NoTask == [state |-> "none", stale |-> FALSE]

\* A completion delegate that was not invoked yet, bound to a function or not.
FOnBitmapBlurred(bound) == [bound |-> bound, alive |-> TRUE, calls |-> 0, Texture |-> NullTexture]

\* No call on a colour in HSV, on a texture or of the asynchronous blur is made.
NoOtherCalls ==
    /\ adjust = [Hue |-> FInt(0), Saturation |-> FInt(1), Luminance |-> FInt(1)]
    /\ HSV = << >>
    /\ Texture2D = NullTexture
    /\ returned = FALSE
    /\ engine = [c \in EngineCalls |-> TRUE]
    /\ texel = [XIndex |-> 0, YIndex |-> 0]
    /\ PixelColor = FColor(0, 0, 0, 0)
    /\ lockFault = FALSE
    /\ caller = "idle"
    /\ task = NoTask
    /\ delegate = FOnBitmapBlurred(FALSE)

\* The arguments that the calls of a specification do not pass keep one value.
NoOtherArguments ==
    /\ Tint = [R |-> FInt(0), G |-> FInt(0), B |-> FInt(0), A |-> FInt(0)]
    /\ projection = [Pixel |-> FColor(0, 0, 0, 0), ColourChannel |-> "RGB"]
    /\ request = [BitmapFilter |-> "Identity", OverrideColourChannel |-> FALSE,
                  ColourChannelOverride |-> "RGB"]

(***************************************************************************)
(* Blend calls on every pair of bitmaps of at most MaxLen pixels.          *)
(***************************************************************************)
BlendPalette ==
    { FColor(0, 0, 0, 0), FColor(10, 20, 30, 0), FColor(200, 0, 50, 128),
      FColor(255, 255, 255, 255) }

InitBlend ==
    /\ fpconv = "none"
    /\ op = "idle"
    /\ BitmapA \in SeqsUpTo(BlendPalette, MaxLen)
    /\ BitmapB \in SeqsUpTo(BlendPalette, MaxLen)
    /\ Size = FImageSize(0, 0)
    /\ Filter = DefaultBitmapFilter
    /\ Level = FInt(1)
    /\ NoOtherArguments
    /\ OutBitmap = << >>
    /\ fault = FALSE
    /\ NoOtherCalls

NextBlend == CallAdd_Bitmap \/ CallMultiply_Bitmap \/ CallDivide_Bitmap

SpecBlend == InitBlend /\ [][NextBlend]_vars

(***************************************************************************)
(* Blend calls with a colour: every bitmap of at most MaxLen pixels and    *)
(* tints inside and outside the range [0,1] of a channel.                  *)
(***************************************************************************)
LinearColor(r, g, b, a) == [R |-> r, G |-> g, B |-> b, A |-> a]

Tints ==
    { LinearColor(FInt(0), FInt(0), FInt(0), FInt(0)),
      LinearColor(FInt(1), FInt(1), FInt(1), FInt(1)),
      LinearColor(Fin(1, 2), Fin(1, 4), Fin(3, 2), Fin(1, 2)),
      LinearColor(Fin(-1, 2), FInt(1), FInt(0), FInt(1)),
      LinearColor(Fin(1, 8), Fin(3, 4), Fin(1, 2), FInt(0)) }

InitTint ==
    /\ fpconv = "none"
    /\ op = "idle"
    /\ BitmapA \in SeqsUpTo(BlendPalette, MaxLen)
    /\ BitmapB = << >>
    /\ Size = FImageSize(0, 0)
    /\ Filter = DefaultBitmapFilter
    /\ Level = FInt(1)
    /\ Tint \in Tints
    /\ projection = [Pixel |-> FColor(0, 0, 0, 0), ColourChannel |-> "RGB"]
    /\ request = [BitmapFilter |-> "Identity", OverrideColourChannel |-> FALSE,
                  ColourChannelOverride |-> "RGB"]
    /\ OutBitmap = << >>
    /\ fault = FALSE
    /\ NoOtherCalls

NextTint == CallAdd_ColorBitmap \/ CallMultiply_ColorBitmap \/ CallDivide_ColorBitmap

SpecTint == InitTint /\ [][NextTint]_vars

(***************************************************************************)
(* Channel projections: pixels that run through every value of every      *)
(* channel, the colours of the blend calls, and pixels whose luminance sum  *)
(* is a whole number; every colour channel mode.                           *)
(***************************************************************************)
WholeLuminance ==
    { FColor(0, 72, 24, 128), FColor(10, 21, 6, 255), FColor(10, 3, 125, 0),
      FColor(0, 0, 0, 255), FColor(255, 255, 255, 0) }

ProjectionPixels ==
    { FColor(v, 255 - v, (7 * v) % 256, a) : v \in Byte, a \in {0, 128, 255} }
        \cup BlendPalette \cup WholeLuminance

InitChannel ==
    /\ fpconv = "none"
    /\ op = "idle"
    /\ BitmapA = << >>
    /\ BitmapB = << >>
    /\ Size = FImageSize(0, 0)
    /\ Filter = DefaultBitmapFilter
    /\ Level = FInt(1)
    /\ Tint = LinearColor(FInt(0), FInt(0), FInt(0), FInt(0))
    /\ projection \in [Pixel : ProjectionPixels, ColourChannel : ColourChannels]
    /\ request = [BitmapFilter |-> "Identity", OverrideColourChannel |-> FALSE,
                  ColourChannelOverride |-> "RGB"]
    /\ OutBitmap = << >>
    /\ fault = FALSE
    /\ NoOtherCalls

NextChannel == CallSetPixelColourChannel

SpecChannel == InitChannel /\ [][NextChannel]_vars

(***************************************************************************)
(* Tone calls: every bitmap of at most MaxLen palette pixels, and one-pixel *)
(* bitmaps that run through every value of every channel; the parameter    *)
(* runs through the nominal range [0,2] in quarters and beyond it.         *)
(***************************************************************************)
RampAlphas == {0, 128, 255}

RampBitmaps == { << FColor(v, 255 - v, (7 * v) % 256, a) >> : v \in Byte, a \in RampAlphas }

PrimaryBitmaps == { << FColor(255, 0, 0, 255) >>, << FColor(0, 255, 0, 128) >> }

Levels == { Fin(q, 4) : q \in {-4, 0, 1, 2, 4, 6, 8, 12} }

InitTone ==
    /\ fpconv = "none"
    /\ op = "idle"
    /\ BitmapA \in SeqsUpTo(BlendPalette, MaxLen) \cup RampBitmaps \cup PrimaryBitmaps
    /\ BitmapB = << >>
    /\ Size = FImageSize(0, 0)
    /\ Filter = DefaultBitmapFilter
    /\ Level \in Levels
    /\ NoOtherArguments
    /\ OutBitmap = << >>
    /\ fault = FALSE
    /\ NoOtherCalls

NextTone == CallSetBitmapBrightness \/ CallSetBitmapContrast

SpecTone == InitTone /\ [][NextTone]_vars

(***************************************************************************)
(* Filter calls.  Size runs through 0..MaxDim in both dimensions.  The      *)
(* bitmap is one colour with at most one pixel of another colour;          *)
(* its length is Size.X * Size.Y, or it is mis-shaped: empty, one pixel     *)
(* short or one pixel long.                                                *)
(***************************************************************************)
FilterBackground == FColor(255, 128, 9, 255)
FilterSpot == FColor(10, 20, 30, 128)

Spot(len, bg, pos, fg) == [i \in 1..len |-> IF i = pos THEN fg ELSE bg]

SpotBitmaps(len) ==
    { Spot(len, FilterBackground, pos, FilterSpot) : pos \in 0..len }
        \cup { Spot(len, FilterSpot, 0, FilterSpot) }

MisShapedBitmaps(n) ==
    { Spot(len, FilterBackground, 1, FilterSpot) : len \in {0, n - 1, n + 1} \cap Nat }

InitFilter ==
    /\ fpconv = "none"
    /\ op = "idle"
    /\ Size \in { FImageSize(x, y) : x \in 0..MaxDim, y \in 0..MaxDim }
    /\ BitmapA \in SpotBitmaps(Size.X * Size.Y) \cup MisShapedBitmaps(Size.X * Size.Y)
    /\ BitmapB = << >>
    /\ Filter = DefaultBitmapFilter
    /\ Level = FInt(1)
    /\ NoOtherArguments
    /\ OutBitmap = << >>
    /\ fault = FALSE
    /\ NoOtherCalls

NextFilter == CallGetBitmapFilter \/ CallFBitmapFilter \/ CallApplyBitmapFilter

SpecFilter == InitFilter /\ [][NextFilter]_vars

(***************************************************************************)
(* Hue, saturation and luminance calls: one-pixel bitmaps of the primary   *)
(* and secondary colours, of colours between them and of a grey, and short *)
(* bitmaps of two of them; the hue runs below, through and above [0,360],  *)
(* the factors below, through and above [0,1].  The colours keep to        *)
(* channels that sRGBToLinearTable holds closely at its resolution.        *)
(***************************************************************************)
HuePalette ==
    { FColor(r, g, b, 255) : r, g, b \in {0, 255} }
        \cup { FColor(255, 128, 0, 128), FColor(64, 0, 255, 255), FColor(0, 255, 200, 0),
               FColor(90, 90, 90, 255), FColor(255, 128, 60, 255), FColor(100, 150, 200, 128) }

HueBitmaps ==
    { << p >> : p \in HuePalette }
        \cup SeqsUpTo({ FColor(255, 0, 0, 255), FColor(100, 150, 200, 128) }, MaxLen)

Hues == { FInt(h) : h \in {-90, 0, 45, 60, 120, 300, 360, 400} }

Saturations == { Fin(q, 2) : q \in {-2, 0, 1, 2, 4} }

Luminances == { Fin(q, 2) : q \in {0, 1, 2, 4} }

CallSetBitmapHueSaturationLuminance ==
    /\ op = "idle"
    /\ op' = "SetBitmapHueSaturationLuminance"
    /\ HSV' = [i \in 1..Len(BitmapA) |->
                  AdjustedHSV(BitmapA[i], adjust.Hue, adjust.Saturation, adjust.Luminance)]
    /\ OutBitmap' = SetBitmapHueSaturationLuminance(BitmapA, adjust.Hue, adjust.Saturation,
                                                    adjust.Luminance)
    /\ fault' = FALSE
    /\ UNCHANGED << fpconv, BitmapA, BitmapB, Size, Filter, scalars, request, textureState,
                    asyncState >>

InitHue ==
    /\ fpconv = "none"
    /\ op = "idle"
    /\ BitmapA \in HueBitmaps
    /\ BitmapB = << >>
    /\ Size = FImageSize(0, 0)
    /\ Filter = DefaultBitmapFilter
    /\ Level = FInt(1)
    /\ NoOtherArguments
    /\ OutBitmap = << >>
    /\ fault = FALSE
    /\ adjust \in [Hue : Hues, Saturation : Saturations, Luminance : Luminances]
    /\ HSV = << >>
    /\ Texture2D = NullTexture
    /\ returned = FALSE
    /\ engine = [c \in EngineCalls |-> TRUE]
    /\ texel = [XIndex |-> 0, YIndex |-> 0]
    /\ PixelColor = FColor(0, 0, 0, 0)
    /\ lockFault = FALSE
    /\ caller = "idle"
    /\ task = NoTask
    /\ delegate = FOnBitmapBlurred(FALSE)

NextHue == CallSetBitmapHueSaturationLuminance

SpecHue == InitHue /\ [][NextHue]_vars

(***************************************************************************)
(* Textures.  A UTexture2D* is null, uninitialised, or an object with its  *)
(* size, the texels of mip 0 as they lie in memory (PF_R8G8B8A8: the bytes *)
(* R, G, B, A) and the lock status of its bulk data.                       *)
(***************************************************************************)
\* A pointer that was never given a value and is not null.
WildTexture == [ptr |-> "uninitialised", SizeX |-> 0, SizeY |-> 0, Mip |-> << >>, Locked |-> FALSE]

\* UTexture2D::CreateTransient(SizeX, SizeY, PF_R8G8B8A8).
CreateTransient(SizeX, SizeY) ==
    [ptr |-> "object", SizeX |-> SizeX, SizeY |-> SizeY,
     Mip |-> [i \in 1..(SizeX * SizeY) |-> << 0, 0, 0, 0 >>], Locked |-> FALSE]

\* BulkData.Lock / LockReadOnly and BulkData.Unlock.
Lock(t) == [t EXCEPT !.Locked = TRUE]
Unlock(t) == [t EXCEPT !.Locked = FALSE]

\* FMemory::Memcpy of the RGBA bytes that GetRaw returned for the pixels.
Memcpy(t, UncompressedRGBA) ==
    [t EXCEPT !.Mip = [i \in 1..Len(UncompressedRGBA) |->
                          << UncompressedRGBA[i].R, UncompressedRGBA[i].G,
                             UncompressedRGBA[i].B, UncompressedRGBA[i].A >>]]

\* The texture both creation functions build from the decoded pixels.
BuiltTexture(image) ==
    Unlock(Memcpy(Lock(CreateTransient(image.Size.X, image.Size.Y)), image.Bitmap))

\* CreateTexture2DFromImageFile, the engine answering e and decoding the file to
\* image; old and oldSize are the caller's Texture2D and Size.  A wrapper that is
\* invalid, or a SetCompressed or GetRaw that fails, skips the block that builds
\* the texture and falls through to the assignment of the null ReturnTexture2D.
CreateTexture2DFromImageFile(e, image, old, oldSize) ==
    IF ~e.FileExists \/ ~e.LoadFileToArray \/ ~e.DetectImageFormat
    THEN [returned |-> FALSE, Texture2D |-> old, Size |-> oldSize]
    ELSE IF e.CreateImageWrapper /\ e.SetCompressed /\ e.GetRaw
         THEN IF ~e.CreateTransient
              THEN [returned |-> FALSE, Texture2D |-> old, Size |-> oldSize]
              ELSE [returned |-> TRUE, Texture2D |-> BuiltTexture(image), Size |-> image.Size]
         ELSE [returned |-> TRUE, Texture2D |-> NullTexture, Size |-> oldSize]

\* CreateTexture2DFromBitmap; the PNG that CompressImageArray writes decodes to the
\* pixels of Bitmap.
CreateTexture2DFromBitmap(e, Bitmap, InSize, old) ==
    IF Len(Bitmap) <= 0 \/ Len(Bitmap) # InSize.X * InSize.Y
    THEN [returned |-> FALSE, Texture2D |-> old]
    ELSE IF ~e.DetectImageFormat \/ ~e.CreateImageWrapper \/ ~e.SetCompressed
            \/ ~e.GetRaw \/ ~e.CreateTransient
    THEN [returned |-> FALSE, Texture2D |-> old]
    ELSE [returned |-> TRUE, Texture2D |-> BuiltTexture([Size |-> InSize, Bitmap |-> Bitmap])]

\* The screenshot with every alpha set to 255.
Opaque(Bitmap) == [i \in 1..Len(Bitmap) |-> [Bitmap[i] EXCEPT !.A = 255]]

\* CreateTexture2DFromScreenshot, the viewport holding image.  ReturnTexture2D is
\* declared without a value (uninit is what it happens to hold), the result of the
\* nested call is dropped, and ReturnTexture2D is assigned to Texture2D either way.
CreateTexture2DFromScreenshot(e, image, old, uninit) ==
    IF ~e.GetViewportScreenShot
    THEN [returned |-> FALSE, Texture2D |-> old]
    ELSE [returned |-> TRUE,
          Texture2D |-> CreateTexture2DFromBitmap(e, Opaque(image.Bitmap), image.Size,
                                                  uninit).Texture2D]

\* The FColor that GetTextureBitmap adds for the texel at flat index i (from 0):
\* the bytes are read as an FColor (B, G, R, A in memory) whose R and B are swapped.
FormatedPixel(t, i) ==
    LET tempPixel == [B |-> t.Mip[i + 1][1], G |-> t.Mip[i + 1][2],
                      R |-> t.Mip[i + 1][3], A |-> t.Mip[i + 1][4]]
    IN  FColor(tempPixel.B, tempPixel.G, tempPixel.R, tempPixel.A)

\* The loop of GetTextureBitmap, Y outside and X inside.
GetTextureBitmap(t) ==
    [i \in 1..(t.SizeX * t.SizeY) |->
        FormatedPixel(t, ((i - 1) \div t.SizeX) * t.SizeX + ((i - 1) % t.SizeX))]

\* The flat index GetTexturePixelColor reads at.
RawIndex(t, XIndex, YIndex) == XIndex * t.SizeX + YIndex

\* The FColor GetTexturePixelColor builds from the four bytes at RawIndex.
RawPixel(t, XIndex, YIndex) ==
    LET raw == t.Mip[RawIndex(t, XIndex, YIndex) + 1]
    IN  FColor(raw[3], raw[2], raw[1], raw[4])

(***************************************************************************)
(* Texture calls, in any order and number, on the texture the last         *)
(* creation handed out.  The images are those of every size up to MaxLen   *)
(* by MaxLen, each texel of its own colour; of the engine calls of a       *)
(* creation at most one fails.  A lock of bulk data that is still locked   *)
(* fails the engine's check and ends the run.                              *)
(***************************************************************************)
Texel(i) == FColor(10 * i, 20 * i + 1, 30 * i + 2, 255 - i)

TextureImage(X, Y) == [Size |-> FImageSize(X, Y), Bitmap |-> [i \in 1..(X * Y) |-> Texel(i)]]

TextureImages == { TextureImage(X, Y) : X, Y \in 1..MaxLen }

\* Arguments of CreateTexture2DFromBitmap: the images, an empty bitmap, and a
\* bitmap that is longer than its size says.
BitmapArguments ==
    TextureImages
        \cup { [Size |-> FImageSize(0, 0), Bitmap |-> << >>],
               [Size |-> FImageSize(1, 1), Bitmap |-> << Texel(1), Texel(2) >>] }

\* What the engine calls answer: all succeed, or one of them fails.
EngineAnswers == { [c \in EngineCalls |-> c # failed] : failed \in EngineCalls \cup {"none"} }

\* What a read outside the texels, or of a pointer without a value, can find.
UndefinedColors == { FColor(0, 0, 0, 0), FColor(205, 205, 205, 205) }
UndefinedTextures == { NullTexture, WildTexture, Texture2D }

\* The arguments and results that a call does not have, each call starting afresh.
AllSucceed == [c \in EngineCalls |-> TRUE]
NoBitmapRead == OutBitmap' = << >>
NoPixelRead == texel' = [XIndex |-> 0, YIndex |-> 0] /\ PixelColor' = FColor(0, 0, 0, 0)

CallCreateTexture2DFromImageFile ==
    /\ ~lockFault
    /\ op' = "CreateTexture2DFromImageFile"
    /\ \E e \in EngineAnswers, image \in TextureImages :
          \E run \in { CreateTexture2DFromImageFile(e, image, Texture2D, Size) } :
              /\ engine' = e
              /\ BitmapA' = image.Bitmap
              /\ returned' = run.returned
              /\ Texture2D' = run.Texture2D
              /\ Size' = run.Size
    /\ fault' = FALSE
    /\ NoBitmapRead /\ NoPixelRead
    /\ UNCHANGED << fpconv, BitmapB, Filter, scalars, request, HSV, lockFault, asyncState >>

CallCreateTexture2DFromBitmap ==
    /\ ~lockFault
    /\ op' = "CreateTexture2DFromBitmap"
    /\ \E e \in EngineAnswers, arguments \in BitmapArguments :
          \E run \in { CreateTexture2DFromBitmap(e, arguments.Bitmap, arguments.Size,
                                                 Texture2D) } :
              /\ engine' = e
              /\ BitmapA' = arguments.Bitmap
              /\ Size' = arguments.Size
              /\ returned' = run.returned
              /\ Texture2D' = run.Texture2D
    /\ fault' = FALSE
    /\ NoBitmapRead /\ NoPixelRead
    /\ UNCHANGED << fpconv, BitmapB, Filter, scalars, request, HSV, lockFault, asyncState >>

\* BitmapA and Size are the screenshot and the size of the viewport.
CallCreateTexture2DFromScreenshot ==
    /\ ~lockFault
    /\ op' = "CreateTexture2DFromScreenshot"
    /\ \E e \in EngineAnswers, image \in TextureImages, uninit \in UndefinedTextures :
          \E run \in { CreateTexture2DFromScreenshot(e, image, Texture2D, uninit) } :
              /\ engine' = e
              /\ BitmapA' = Opaque(image.Bitmap)
              /\ Size' = image.Size
              /\ returned' = run.returned
              /\ Texture2D' = run.Texture2D
    /\ fault' = FALSE
    /\ NoBitmapRead /\ NoPixelRead
    /\ UNCHANGED << fpconv, BitmapB, Filter, scalars, request, HSV, lockFault, asyncState >>

\* GetTextureBitmap(Bitmap, Size, Texture2D): IsValidLowLevel answers false for a
\* null pointer; a pointer without a value is followed anyway.
CallGetTextureBitmap ==
    /\ ~lockFault
    /\ op' = "GetTextureBitmap"
    /\ CASE Texture2D.ptr = "nullptr" ->
                /\ returned' = FALSE
                /\ fault' = FALSE
                /\ NoBitmapRead
                /\ UNCHANGED << Texture2D, Size, lockFault >>
         [] Texture2D.ptr = "uninitialised" ->
                /\ returned' = FALSE
                /\ fault' = TRUE
                /\ NoBitmapRead
                /\ UNCHANGED << Texture2D, Size, lockFault >>
         [] Texture2D.ptr = "object" /\ Texture2D.Locked ->
                /\ lockFault' = TRUE
                /\ returned' = FALSE
                /\ fault' = FALSE
                /\ NoBitmapRead
                /\ UNCHANGED << Texture2D, Size >>
         [] OTHER ->
                /\ Texture2D' = Unlock(Lock(Texture2D))
                /\ OutBitmap' = GetTextureBitmap(Lock(Texture2D))
                /\ Size' = FImageSize(Texture2D.SizeX, Texture2D.SizeY)
                /\ returned' = TRUE
                /\ fault' = FALSE
                /\ UNCHANGED lockFault
    /\ engine' = AllSucceed
    /\ BitmapA' = << >>
    /\ NoPixelRead
    /\ UNCHANGED << fpconv, BitmapB, Filter, scalars, request, HSV, asyncState >>

\* GetTexturePixelColor(PixelColor, Texture2D, XIndex, YIndex) with a position inside
\* the texture; the bulk data is locked and the function returns without an Unlock.
CallGetTexturePixelColor ==
    /\ ~lockFault
    /\ op' = "GetTexturePixelColor"
    /\ \E XIndex \in 0..(MaxLen - 1), YIndex \in 0..(MaxLen - 1) :
          /\ XIndex < Texture2D.SizeX \/ (Texture2D.ptr # "object" /\ XIndex = 0)
          /\ YIndex < Texture2D.SizeY \/ (Texture2D.ptr # "object" /\ YIndex = 0)
          /\ texel' = [XIndex |-> XIndex, YIndex |-> YIndex]
          /\ CASE Texture2D.ptr = "nullptr" ->
                      /\ returned' = FALSE
                      /\ fault' = FALSE
                      /\ PixelColor' = FColor(0, 0, 0, 0)
                      /\ UNCHANGED << Texture2D, lockFault >>
               [] Texture2D.ptr = "uninitialised" ->
                      /\ returned' = FALSE
                      /\ fault' = TRUE
                      /\ PixelColor' = FColor(0, 0, 0, 0)
                      /\ UNCHANGED << Texture2D, lockFault >>
               [] Texture2D.ptr = "object" /\ Texture2D.Locked ->
                      /\ lockFault' = TRUE
                      /\ returned' = FALSE
                      /\ fault' = FALSE
                      /\ PixelColor' = FColor(0, 0, 0, 0)
                      /\ UNCHANGED Texture2D
               [] OTHER ->
                      /\ Texture2D' = Lock(Texture2D)
                      /\ returned' = TRUE
                      /\ UNCHANGED lockFault
                      /\ IF RawIndex(Texture2D, XIndex, YIndex) < Len(Texture2D.Mip)
                         THEN /\ PixelColor' = RawPixel(Texture2D, XIndex, YIndex)
                              /\ fault' = FALSE
                         ELSE /\ PixelColor' \in UndefinedColors
                              /\ fault' = TRUE
    /\ engine' = AllSucceed
    /\ BitmapA' = << >>
    /\ NoBitmapRead
    /\ UNCHANGED << fpconv, BitmapB, Size, Filter, scalars, request, HSV, asyncState >>

InitTexture ==
    /\ fpconv = "none"
    /\ op = "idle"
    /\ BitmapA = << >>
    /\ BitmapB = << >>
    /\ Size = FImageSize(0, 0)
    /\ Filter = DefaultBitmapFilter
    /\ Level = FInt(1)
    /\ NoOtherArguments
    /\ OutBitmap = << >>
    /\ fault = FALSE
    /\ NoOtherCalls

NextTexture ==
    \/ CallCreateTexture2DFromImageFile
    \/ CallCreateTexture2DFromBitmap
    \/ CallCreateTexture2DFromScreenshot
    \/ CallGetTextureBitmap
    \/ CallGetTexturePixelColor

SpecTexture == InitTexture /\ [][NextTexture]_vars

(***************************************************************************)
(* BlurBitmapAsync.  The call hands a lambda to Async on the game thread's *)
(* task graph and returns; the lambda holds references to the parameters   *)
(* Bitmap and Size and to the caller's delegate.  The caller's return and  *)
(* the task run in either order.  BlurStrength and BlurRadius are not      *)
(* read.                                                                   *)
(***************************************************************************)
\* What the task finds behind its references to Bitmap and Size: the arguments while
\* the call has not returned, afterwards whatever their memory holds, the arguments
\* still or an emptied array and size.
TaskReads ==
    IF caller = "returned"
    THEN { [Bitmap |-> BitmapA, Size |-> Size], [Bitmap |-> << >>, Size |-> FImageSize(0, 0)] }
    ELSE { [Bitmap |-> BitmapA, Size |-> Size] }

\* The body of the lambda on what it read: the texture handed to ExecuteIfBound and
\* the filtered bitmap.  ResultTexture has no initial value (uninit) and the result
\* of CreateTexture2DFromBitmap is dropped.
BlurTask(read, e, uninit) ==
    LET Result == ApplyBitmapFilter(read.Bitmap, read.Size, DefaultBitmapFilter, "wrap").out
    IN  [Result |-> Result,
         ResultTexture |-> CreateTexture2DFromBitmap(e, Result, read.Size, uninit).Texture2D]

CallBlurBitmapAsync ==
    /\ caller = "idle"
    /\ caller' = "inBlurBitmapAsync"
    /\ op' = "BlurBitmapAsync"
    /\ task' = [state |-> "queued", stale |-> FALSE]
    /\ UNCHANGED << fpconv, BitmapA, BitmapB, Size, Filter, scalars, request, OutBitmap, fault,
                    HSV, textureState, delegate >>

\* BlurBitmapAsync returns: Bitmap and Size are destroyed, and the caller may let go
\* of the delegate.
ReturnBlurBitmapAsync ==
    /\ caller = "inBlurBitmapAsync"
    /\ caller' = "returned"
    /\ \E alive \in BOOLEAN : delegate' = [delegate EXCEPT !.alive = alive]
    /\ UNCHANGED << fpconv, op, BitmapA, BitmapB, Size, Filter, scalars, request, OutBitmap,
                    fault, HSV, textureState, task >>

\* The game thread runs the task.  ExecuteIfBound on a delegate that is gone may
\* call the bound function or not.
RunBlurTask ==
    /\ task.state = "queued"
    /\ task' = [state |-> "done", stale |-> caller = "returned"]
    /\ fault' = (caller = "returned")
    /\ \E read \in TaskReads, e \in { AllSucceed, [AllSucceed EXCEPT !.CreateTransient = FALSE] },
          uninit \in { NullTexture, WildTexture },
          invoked \in (IF delegate.alive THEN { delegate.bound } ELSE BOOLEAN) :
          \E run \in { BlurTask(read, e, uninit) } :
              /\ engine' = e
              /\ OutBitmap' = run.Result
              /\ delegate' = IF invoked
                             THEN [delegate EXCEPT !.calls = @ + 1,
                                                   !.Texture = run.ResultTexture]
                             ELSE delegate
    /\ UNCHANGED << fpconv, op, BitmapA, BitmapB, Size, Filter, scalars, request, HSV,
                    Texture2D, returned, texel, PixelColor, lockFault, caller >>

\* Calls on every bitmap of SpotBitmaps of every size up to MaxLen by MaxLen, the
\* empty one included, with a bound and with an unbound delegate.
InitAsync ==
    /\ fpconv = "none"
    /\ op = "idle"
    /\ Size \in { FImageSize(x, y) : x \in 0..MaxLen, y \in 0..MaxLen }
    /\ BitmapA \in SpotBitmaps(Size.X * Size.Y)
    /\ BitmapB = << >>
    /\ Filter = DefaultBitmapFilter
    /\ Level = FInt(1)
    /\ NoOtherArguments
    /\ OutBitmap = << >>
    /\ fault = FALSE
    /\ adjust = [Hue |-> FInt(0), Saturation |-> FInt(1), Luminance |-> FInt(1)]
    /\ HSV = << >>
    /\ Texture2D = NullTexture
    /\ returned = FALSE
    /\ engine = AllSucceed
    /\ texel = [XIndex |-> 0, YIndex |-> 0]
    /\ PixelColor = FColor(0, 0, 0, 0)
    /\ lockFault = FALSE
    /\ caller = "idle"
    /\ task = NoTask
    /\ \E bound \in BOOLEAN : delegate = FOnBitmapBlurred(bound)

NextAsync == CallBlurBitmapAsync \/ ReturnBlurBitmapAsync \/ RunBlurTask

SpecAsync == InitAsync /\ [][NextAsync]_vars

\* The steps of RunBlurTask and of ReturnBlurBitmapAsync, by what they do to task and
\* to caller.
TaskCompletes ==
    task.state = "queued" /\ task' = [state |-> "done", stale |-> caller = "returned"]
CallReturns == caller = "inBlurBitmapAsync" /\ caller' = "returned"

\* The task graph runs a queued task, and the call returns.
SpecAsyncLive == SpecAsync /\ WF_task(TaskCompletes) /\ WF_caller(CallReturns)

(***************************************************************************)
(* Properties.                                                             *)
(***************************************************************************)
Channels == {"R", "G", "B", "A"}
ColourOnly == {"R", "G", "B"}

ZeroPixel == FColor(0, 0, 0, 0)

Blended == IF Len(BitmapA) > 0 /\ Len(BitmapB) > 0
           THEN 1..IMin(Len(BitmapA), Len(BitmapB)) ELSE {}

\* C1: Add_Bitmap gives (0,0,0,0) for a pixel pair whose alphas are both 0, and for
\* every other pair (alphas equal or not) each of R, G, B, A is min(a + b, 255).
C1_AddPixelSemantics ==
    op = "Add_Bitmap" =>
        /\ DOMAIN OutBitmap = Blended
        /\ \A i \in Blended :
              IF BitmapA[i].A = 0 /\ BitmapB[i].A = 0
              THEN OutBitmap[i] = ZeroPixel
              ELSE \A c \in Channels :
                      OutBitmap[i][c] = IMin(BitmapA[i][c] + BitmapB[i][c], 255)

\* C2: adding the all-zero bitmap of the same length returns the bitmap unchanged,
\* whatever the alpha of its pixels.
C2_AddZeroIdentity ==
    ( /\ op = "Add_Bitmap"
      /\ Len(BitmapB) = Len(BitmapA)
      /\ \A i \in DOMAIN BitmapB : BitmapB[i] = ZeroPixel )
    => OutBitmap = BitmapA

\* C3: SetBitmapBrightness(B, 1.0) and SetBitmapContrast(B, 1.0) return B, pixel for
\* pixel, alpha included.
C3_NeutralToneIdentity ==
    (op \in {"SetBitmapBrightness", "SetBitmapContrast"} /\ Level = FInt(1))
    => OutBitmap = BitmapA

WellShaped == Len(BitmapA) = Size.X * Size.Y

Uniform(Bitmap) == \A i, j \in DOMAIN Bitmap : Bitmap[i] = Bitmap[j]

\* C4: the box blur of a bitmap of one colour, of any size, is that bitmap.
C4_BoxBlurFlatField ==
    ( /\ op = "ApplyBitmapFilter"
      /\ Filter = GetBitmapFilter("BoxBlur", FALSE, "RGBA")
      /\ WellShaped
      /\ Uniform(BitmapA) )
    => OutBitmap = BitmapA

\* The kernel-weighted sum of channel ch over the pixels that the cells from c on
\* sample for (X, Y), bias included, as an exact rational.
RECURSIVE KernelSum(_, _, _, _, _, _, _)
KernelSum(Bitmap, SizeX, Flt, X, Y, ch, c) ==
    IF Flt.Size.X <= 0 \/ c >= Flt.Size.X * Flt.Size.Y THEN FInt(0)
    ELSE FAdd(FAdd(FMul(FInt(Bitmap[NPixelIndex(Len(Bitmap), SizeX, Flt, X, Y,
                                                c % Flt.Size.X, c \div Flt.Size.X) + 1][ch]),
                        FMul(Flt.Filter[NFilterIndex(Flt, c % Flt.Size.X, c \div Flt.Size.X) + 1],
                             Flt.Factor)),
                   Flt.Bias),
              KernelSum(Bitmap, SizeX, Flt, X, Y, ch, c + 1))

\* C5: every output colour channel of ApplyBitmapFilter is the kernel-weighted sum
\* clamped into [0,255]; no channel is a value wrapped modulo 256.
C5_FilterClampsOutput ==
    ( /\ op = "ApplyBitmapFilter"
      /\ ~fault
      /\ WellShaped
      /\ Filter.ColourChannel \in {"RGB", "RGBA"} )
    => \A k \in 0..(Size.X * Size.Y - 1) : \A ch \in ColourOnly :
          OutBitmap[k + 1][ch] =
              ClampToByte(KernelSum(BitmapA, Size.X, Filter, k % Size.X, k \div Size.X, ch, 0))

\* C6: ApplyBitmapFilter rejects a bitmap whose length is not Size.X * Size.Y: it
\* reads nothing out of range and returns no filtered pixels.  Stated for the
\* non-empty bitmaps; the empty one is the case of C7.
C6_MisShapedRejected ==
    (op = "ApplyBitmapFilter" /\ ~WellShaped /\ Len(BitmapA) > 0)
    => (~fault /\ OutBitmap = << >>)

\* C7: a transform called with an empty bitmap, or a filter called with a Size of 0
\* in a dimension, returns the empty bitmap without an out-of-range access.
C7_EmptyInputsNeverFail ==
    ( \/ /\ op = "ApplyBitmapFilter"
         /\ (Len(BitmapA) = 0 \/ Size.X = 0 \/ Size.Y = 0)
      \/ /\ op \in {"Add_Bitmap", "Divide_Bitmap", "SetBitmapBrightness", "SetBitmapContrast"}
         /\ Len(BitmapA) = 0 )
    => (~fault /\ OutBitmap = << >>)

Malformed(Flt) == Len(Flt.Filter) # Flt.Size.X * Flt.Size.Y

\* C8: a kernel whose weight count is not Size.X * Size.Y (fewer, more or none) never
\* makes ApplyBitmapFilter fail: each cell reads a weight at a valid index.
C8_MalformedKernelNeverFails ==
    ( /\ op = "ApplyBitmapFilter"
      /\ Malformed(Filter)
      /\ WellShaped
      /\ Len(BitmapA) > 0 )
    => /\ ~fault
       /\ \A filterY \in 0..(Filter.Size.Y - 1), filterX \in 0..(Filter.Size.X - 1) :
             NFilterIndex(Filter, filterX, filterY) \in 0..(Len(Filter.Filter) - 1)

\* C9: Divide_Bitmap on non-empty bitmaps completes; where a channel of B is 0 the
\* output channel is a byte that depends only on the two input channels, and it is
\* 255 when the dividend channel is not 0.
C9_DivideByZeroDefined ==
    op = "Divide_Bitmap" =>
        /\ ~fault
        /\ DOMAIN OutBitmap = Blended
        /\ \A i \in Blended : \A c \in Channels :
              /\ OutBitmap[i][c] \in Byte
              /\ (BitmapB[i][c] = 0 /\ BitmapA[i][c] # 0) => OutBitmap[i][c] = 255
        /\ \A i, j \in Blended : \A c, d \in Channels :
              ( /\ (c = "A") = (d = "A")
                /\ BitmapB[i][c] = 0 /\ BitmapB[j][d] = 0
                /\ BitmapA[i][c] = BitmapA[j][d] )
              => OutBitmap[i][c] = OutBitmap[j][d]

\* A division whose divisor has a zero channel under a non-zero dividend channel, and
\* one that is 0/0.
C9_Witness ==
    /\ op = "Divide_Bitmap"
    /\ \E i \in Blended : \E c, d \in Channels :
          /\ BitmapB[i][c] = 0 /\ BitmapA[i][c] # 0 /\ OutBitmap[i][c] = 255
          /\ BitmapB[i][d] = 0 /\ BitmapA[i][d] = 0

Interior == { k \in 0..(Size.X * Size.Y - 1) :
                 /\ k % Size.X >= 1 /\ k % Size.X <= Size.X - 2
                 /\ k \div Size.X >= 1 /\ k \div Size.X <= Size.Y - 2 }

\* C10: the Identity kernel reproduces a well-shaped bitmap at every interior pixel,
\* in R, G, B and alpha.
C10_IdentityKernelInterior ==
    ( /\ op = "ApplyBitmapFilter"
      /\ Filter = GetBitmapFilter("Identity", FALSE, "RGBA")
      /\ WellShaped )
    => /\ ~fault
       /\ \A k \in Interior : OutBitmap[k + 1] = BitmapA[k + 1]

\* The Identity kernel applied to a bitmap with an interior pixel that differs from
\* its neighbours, in colour and in alpha.
C10_Witness ==
    /\ op = "ApplyBitmapFilter"
    /\ Filter = GetBitmapFilter("Identity", FALSE, "RGBA")
    /\ WellShaped
    /\ \E k \in Interior :
          /\ BitmapA[k + 1] = FilterSpot
          /\ BitmapA[k] = FilterBackground
          /\ OutBitmap[k + 1] = FilterSpot

\* The sum of the weights of a kernel from weight i on.
RECURSIVE WeightSum(_, _)
WeightSum(Flt, i) ==
    IF i > Len(Flt.Filter) THEN FInt(0) ELSE FAdd(Flt.Filter[i], WeightSum(Flt, i + 1))

\* C11: GetBitmapFilter(EdgeDetection) without override has channel mode Greyscale
\* and weights that sum to 0, and applied to a bitmap of one colour it gives
\* (0,0,0,255) at every interior pixel.
C11_EdgeDetectionFlatField ==
    ( /\ op = "ApplyBitmapFilter"
      /\ request.BitmapFilter = "EdgeDetection"
      /\ ~request.OverrideColourChannel
      /\ Filter = GetBitmapFilter("EdgeDetection", FALSE, "RGB")
      /\ WellShaped
      /\ Uniform(BitmapA) )
    => /\ Filter.ColourChannel = "Greyscale"
       /\ WeightSum(Filter, 1) = FInt(0)
       /\ ~fault
       /\ \A k \in Interior : OutBitmap[k + 1] = FColor(0, 0, 0, 255)

\* C12: Add_Bitmap is commutative, for bitmaps of the same or of different lengths:
\* the returned bitmap is the one the call with the arguments exchanged returns.
C12_AddCommutative ==
    op = "Add_Bitmap" => OutBitmap = Add_Bitmap(BitmapB, BitmapA)

\* An addition of bitmaps of different lengths whose first pixels differ in colour
\* and in alpha, and one whose first pixels are summed.
C12_Witness ==
    /\ op = "Add_Bitmap"
    /\ Len(BitmapA) # Len(BitmapB)
    /\ OutBitmap # << >>
    /\ BitmapA[1] # BitmapB[1]
    /\ \/ BitmapA[1].A # BitmapB[1].A
       \/ OutBitmap[1] # ZeroPixel

\* C13: Add_Bitmap is associative on bitmaps of one length, for every combination
\* of alpha values: adding a third bitmap C to the returned sum of A and B gives
\* what adding A to the sum of B and C gives.
C13_AddAssociative ==
    (op = "Add_Bitmap" /\ Len(BitmapA) = Len(BitmapB))
    => \A C \in [1..Len(BitmapA) -> BlendPalette] :
          Add_Bitmap(OutBitmap, C) = Add_Bitmap(BitmapA, Add_Bitmap(BitmapB, C))

\* C14: the bitmap of (255,255,255,255) pixels is an identity of Multiply_Bitmap:
\* multiplying a bitmap by it, length for length, returns the bitmap on every channel.
C14_MultiplyByWhiteIdentity ==
    ( /\ op = "Multiply_Bitmap"
      /\ Len(BitmapB) = Len(BitmapA)
      /\ \A i \in DOMAIN BitmapB : BitmapB[i] = FColor(255, 255, 255, 255) )
    => OutBitmap = BitmapA

\* The bitmap a blend function returns for the arguments A and B.
Blend(f, A, B) ==
    CASE f = "Add_Bitmap" -> Add_Bitmap(A, B)
      [] f = "Multiply_Bitmap" -> Multiply_Bitmap(A, B)
      [] f = "Divide_Bitmap" -> Divide_Bitmap(A, B)

BlendFunctions == {"Add_Bitmap", "Multiply_Bitmap", "Divide_Bitmap"}

\* C15: Add_Bitmap, Multiply_Bitmap and Divide_Bitmap return min(len A, len B) pixels
\* when both bitmaps are non-empty and none when one is empty, and pixel i of the
\* result depends only on A[i] and B[i]: it is the result for the one-pixel bitmaps
\* of A[i] and of B[i], and equal pairs give equal pixels at every position.
C15_BlendLengthAndLocality ==
    op \in BlendFunctions =>
        /\ Len(OutBitmap) = IF Len(BitmapA) = 0 \/ Len(BitmapB) = 0 THEN 0
                            ELSE IMin(Len(BitmapA), Len(BitmapB))
        /\ \A i \in DOMAIN OutBitmap :
              OutBitmap[i] = Blend(op, << BitmapA[i] >>, << BitmapB[i] >>)[1]
        /\ \A i, j \in DOMAIN OutBitmap :
              (BitmapA[i] = BitmapA[j] /\ BitmapB[i] = BitmapB[j])
              => OutBitmap[i] = OutBitmap[j]

\* A multiplication of bitmaps of different lengths, the first the longer one, that
\* returns as many pixels as the shorter has.
C15_Witness ==
    /\ op = "Multiply_Bitmap"
    /\ Len(BitmapB) > 0
    /\ Len(BitmapA) > Len(BitmapB)
    /\ Len(OutBitmap) = Len(BitmapB)

\* The two-bitmap function that a ..._ColorBitmap function delegates to.
Delegate(f) ==
    CASE f = "Add_ColorBitmap" -> "Add_Bitmap"
      [] f = "Multiply_ColorBitmap" -> "Multiply_Bitmap"
      [] f = "Divide_ColorBitmap" -> "Divide_Bitmap"

ColorBlendFunctions == {"Add_ColorBitmap", "Multiply_ColorBitmap", "Divide_ColorBitmap"}

\* C16: Add_ColorBitmap, Multiply_ColorBitmap and Divide_ColorBitmap return what the
\* two-bitmap function returns for the bitmap and as many copies of the 8-bit form
\* of the colour as the bitmap has pixels; the result has the bitmap's length, and is
\* empty for the empty bitmap.
C16_ColorBlendRefinesBlend ==
    op \in ColorBlendFunctions =>
        /\ Len(OutBitmap) = Len(BitmapA)
        /\ OutBitmap = Blend(Delegate(op), BitmapA,
                             [i \in 1..Len(BitmapA) |-> ToFColor(Tint)])

\* A blend of a bitmap of several pixels with a colour that has a channel above 1
\* and channels strictly inside (0,1).
C16_Witness ==
    /\ op \in ColorBlendFunctions
    /\ Len(BitmapA) > 1
    /\ Len(OutBitmap) = Len(BitmapA)
    /\ ToFColor(Tint) = FColor(127, 63, 255, 127)

\* The exact sum 0.2989 * R + 0.5870 * G + 0.1140 * B in units of 1/10000.
Luminance(p) == 2989 * p.R + 5870 * p.G + 1140 * p.B

C18_ModeAFiltersAlpha ==
    ( /\ op = "ApplyBitmapFilter"
      /\ ~fault
      /\ WellShaped
      /\ Filter.ColourChannel = "A" )
    => \A k \in 0..(Size.X * Size.Y - 1) : \A ch \in ColourOnly :
          OutBitmap[k + 1][ch] =
              ClampToByte(KernelSum(BitmapA, Size.X, Filter, k % Size.X, k \div Size.X, "A", 0))

\* The kernel table: size, weights, factor and default colour channel mode.
KernelTable(t) ==
    CASE t = "Identity" ->
           [Size |-> 3, Weights |-> << 0,0,0, 0,1,0, 0,0,0 >>, Factor |-> FInt(1),
            Mode |-> "RGBA"]
      [] t = "BoxBlur" ->
           [Size |-> 3, Weights |-> << 1,1,1, 1,1,1, 1,1,1 >>, Factor |-> Fin(1, 9),
            Mode |-> "RGBA"]
      [] t = "Gaussian1" ->
           [Size |-> 3, Weights |-> << 1,2,1, 2,4,2, 1,2,1 >>, Factor |-> Fin(1, 16),
            Mode |-> "RGBA"]
      [] t = "Gaussian2" ->
           [Size |-> 5, Weights |-> << 1,4,6,4,1, 4,16,24,16,4, 6,24,36,24,6,
                                      4,16,24,16,4, 1,4,6,4,1 >>,
            Factor |-> Fin(1, 256), Mode |-> "RGBA"]
      [] t = "Sharpen" ->
           [Size |-> 3, Weights |-> << 0,-1,0, -1,5,-1, 0,-1,0 >>, Factor |-> FInt(1),
            Mode |-> "RGBA"]
      [] t = "EdgeDetection" ->
           [Size |-> 3, Weights |-> << -1,-1,-1, -1,8,-1, -1,-1,-1 >>, Factor |-> FInt(1),
            Mode |-> "Greyscale"]

\* C19: GetBitmapFilter returns for each of the six named types the size, weights
\* and factor of the kernel table, bias 0 and Size.X * Size.Y weights; the colour
\* channel mode is ColourChannelOverride when OverrideColourChannel is true and the
\* default of the table otherwise.
C19_KernelTable ==
    op = "GetBitmapFilter" =>
        LET row == KernelTable(request.BitmapFilter)
        IN  /\ Filter.Size = FImageSize(row.Size, row.Size)
            /\ Len(Filter.Filter) = Filter.Size.X * Filter.Size.Y
            /\ Len(Filter.Filter) = Len(row.Weights)
            /\ \A i \in DOMAIN Filter.Filter : Filter.Filter[i] = FInt(row.Weights[i])
            /\ Filter.Factor = row.Factor
            /\ Filter.Bias = FInt(0)
            /\ Filter.ColourChannel = IF request.OverrideColourChannel
                                      THEN request.ColourChannelOverride
                                      ELSE row.Mode

\* The request of the 5x5 Gaussian kernel with an override of its colour channel mode.
C19_Witness ==
    /\ op = "GetBitmapFilter"
    /\ request.BitmapFilter = "Gaussian2"
    /\ request.OverrideColourChannel
    /\ request.ColourChannelOverride # "RGBA"
    /\ Len(Filter.Filter) = 25
    /\ Filter.ColourChannel = request.ColourChannelOverride

\* Brightness in units of 1/Level.d, values outside [0,2] acting as the nearest bound.
NominalLevel == IF Level.n < 0 THEN 0 ELSE IF Level.n > 2 * Level.d THEN 2 * Level.d ELSE Level.n

\* channel + (Brightness - 1) * 255 in units of 1/Level.d.
Brightened(channel) == channel * Level.d + (NominalLevel - Level.d) * 255

\* C20: SetBitmapBrightness adds the offset (Brightness - 1) * 255, Brightness taken
\* to the nearest bound of [0,2], to each of R, G, B, clamps the sum into [0,255] and
\* truncates it; Brightness 1.5 turns (255,0,0,255) into (255,127,127,255) and leaves
\* (255,255,255,255) as it is.
C20_BrightnessFormula ==
    op = "SetBitmapBrightness" =>
        /\ Len(OutBitmap) = Len(BitmapA)
        /\ \A i \in DOMAIN BitmapA : \A ch \in ColourOnly :
              OutBitmap[i][ch] =
                  IF Brightened(BitmapA[i][ch]) <= 0 THEN 0
                  ELSE IF Brightened(BitmapA[i][ch]) >= 255 * Level.d THEN 255
                  ELSE Brightened(BitmapA[i][ch]) \div Level.d
        /\ (Level = Fin(3, 2) /\ BitmapA = << FColor(255, 0, 0, 255) >>)
           => OutBitmap = << FColor(255, 127, 127, 255) >>
        /\ (Level = Fin(3, 2) /\ BitmapA = << FColor(255, 255, 255, 255) >>)
           => OutBitmap = BitmapA

\* Brightness 1.5 applied to the pixel (255,0,0,255).
C20_Witness ==
    /\ op = "SetBitmapBrightness"
    /\ Level = Fin(3, 2)
    /\ BitmapA = << FColor(255, 0, 0, 255) >>
    /\ OutBitmap = << FColor(255, 127, 127, 255) >>

\* The denominator of the contrast factor over the clamped level, in units of
\* 1/Level.d: factor = 259 * NominalLevel / ContrastDenominator.
ContrastDenominator == 514 * Level.d - 255 * NominalLevel

\* factor * (channel - 128) + 128 in units of 1/ContrastDenominator.
Contrasted(channel) == 259 * NominalLevel * (channel - 128) + 128 * ContrastDenominator

\* C21: SetBitmapContrast never divides by zero: for every Contrast, inside [0,2] or
\* not, the mapped offset lies in [-255,255], the denominator 255 * (259 - offset) is
\* positive and the factor 259 * (offset + 255) / (255 * (259 - offset)) lies in
\* [0, 129.5]; each of R, G, B of the output is factor * (channel - 128) + 128 clamped
\* into [0,255], and Contrast 0 turns every colour channel into 128.
C21_ContrastFactorBounded ==
    op = "SetBitmapContrast" =>
        LET offset == GetMappedRangeValueClamped(Level)
            denominator == FMul(FInt(255), FAdd(FInt(259), FNeg(offset)))
            factor == ContrastFactor(offset)
        IN  /\ offset.k = "fin"
            /\ -255 * offset.d <= offset.n /\ offset.n <= 255 * offset.d
            /\ denominator.k = "fin" /\ denominator.n > 0
            /\ factor.k = "fin"
            /\ 0 <= factor.n /\ 2 * factor.n <= 259 * factor.d
            /\ factor.n * ContrastDenominator = 259 * NominalLevel * factor.d
            /\ Len(OutBitmap) = Len(BitmapA)
            /\ \A i \in DOMAIN BitmapA : \A ch \in ColourOnly :
                  OutBitmap[i][ch] =
                      IF Contrasted(BitmapA[i][ch]) <= 0 THEN 0
                      ELSE IF Contrasted(BitmapA[i][ch]) >= 255 * ContrastDenominator THEN 255
                      ELSE Contrasted(BitmapA[i][ch]) \div ContrastDenominator
            /\ Level.n = 0 =>
                  \A i \in DOMAIN BitmapA : \A ch \in ColourOnly : OutBitmap[i][ch] = 128

\* Contrast -1, below the nominal range, applied to the pixel (255,0,0,255).
C21_Witness ==
    /\ op = "SetBitmapContrast"
    /\ Level = FInt(-1)
    /\ BitmapA = << FColor(255, 0, 0, 255) >>
    /\ OutBitmap = << FColor(128, 128, 128, 255) >>

\* The HSV colour of pixel i of the argument, before the adjustment.
PixelHSV(i) == LinearRGBToHSV(FLinearColor(BitmapA[i]))

\* clamp(Hue, 0, 360) of the Hue argument.
HueShift ==
    IF adjust.Hue.n < 0 THEN FInt(0)
    ELSE IF adjust.Hue.n > 360 * adjust.Hue.d THEN FInt(360)
    ELSE adjust.Hue

\* x lies in [lo, hi], two integers.
Within(x, lo, hi) == x.k = "fin" /\ lo * x.d <= x.n /\ x.n <= hi * x.d

\* x * factor, taken to the nearest bound of [0,1].
Scaled(x, factor) ==
    LET product == Fin(x.n * factor.n, x.d * factor.d)
    IN  IF product.n < 0 THEN FInt(0) ELSE IF product.n > product.d THEN FInt(1) ELSE product

\* C22: in SetBitmapHueSaturationLuminance the hue H of every pixel lies in [0,360);
\* the resulting hue lies in [0,360] and differs from H + clamp(Hue, 0, 360) by a
\* multiple of 360; the resulting saturation and value are the pixel's, multiplied
\* by Saturation and by Luminance and taken into [0,1].
C22_HueWraparound ==
    op = "SetBitmapHueSaturationLuminance" =>
        /\ Len(HSV) = Len(BitmapA)
        /\ Len(OutBitmap) = Len(BitmapA)
        /\ \A i \in DOMAIN BitmapA :
              /\ Within(PixelHSV(i).R, 0, 360) /\ PixelHSV(i).R # FInt(360)
              /\ Within(HSV[i].R, 0, 360)
              /\ \E k \in -2..2 :
                    HSV[i].R = FAdd(PixelHSV(i).R, FAdd(HueShift, FInt(360 * k)))
              /\ HSV[i].G = Scaled(PixelHSV(i).G, adjust.Saturation)
              /\ HSV[i].B = Scaled(PixelHSV(i).B, adjust.Luminance)
              /\ Within(HSV[i].G, 0, 1)
              /\ Within(HSV[i].B, 0, 1)

\* Hue 300 added to the hue 240 of a blue pixel: 540 is taken back to 180, cyan.
C22_Witness ==
    /\ op = "SetBitmapHueSaturationLuminance"
    /\ BitmapA = << FColor(0, 0, 255, 255) >>
    /\ adjust = [Hue |-> FInt(300), Saturation |-> FInt(1), Luminance |-> FInt(1)]
    /\ HSV[1].R = FInt(180)
    /\ OutBitmap = << FColor(0, 255, 255, 255) >>

Creations ==
    {"CreateTexture2DFromImageFile", "CreateTexture2DFromBitmap",
     "CreateTexture2DFromScreenshot"}

\* The engine calls that decode the pixels and create the texture.
DecodingCalls == {"CreateImageWrapper", "SetCompressed", "GetRaw", "CreateTransient"}

\* C23: a texture creation that returns true hands out a texture object built from
\* the decoded pixels, and a creation whose decoding or texture creation fails
\* (the wrapper is invalid, SetCompressed, GetRaw or CreateTransient fails, also
\* inside the nested creation of a screenshot) returns false.
C23_SuccessOnlyWithTexture ==
    op \in Creations =>
        /\ returned =>
              /\ Texture2D.ptr = "object"
              /\ Texture2D = BuiltTexture([Size |-> FImageSize(Texture2D.SizeX, Texture2D.SizeY),
                                           Bitmap |-> BitmapA])
        /\ (\E c \in DecodingCalls : ~engine[c]) => ~returned

\* C24: GetTexturePixelColor(XIndex, YIndex) on a texture of width W and height H,
\* with 0 <= XIndex < W and 0 <= YIndex < H, reads the texel at the flat index
\* YIndex * W + XIndex, never outside the W * H texels, and returns the pixel that
\* GetTextureBitmap returns at that index.
C24_PixelAtColumnRow ==
    (op = "GetTexturePixelColor" /\ returned) =>
        /\ ~fault
        /\ RawIndex(Texture2D, texel.XIndex, texel.YIndex)
              = texel.YIndex * Texture2D.SizeX + texel.XIndex
        /\ PixelColor
              = GetTextureBitmap(Texture2D)[texel.YIndex * Texture2D.SizeX + texel.XIndex + 1]

\* C27: whatever texture calls were made, the bulk data of the texture is unlocked
\* when a call has returned, and no call locks bulk data that is still locked.
C27_LocksReleased ==
    /\ Texture2D.ptr = "object" => ~Texture2D.Locked
    /\ ~lockFault

\* The flat index that kernel cell c (kx = c % width, ky = c \div width) samples for
\* output pixel k (x = k % Size.X, y = k \div Size.X): the source coordinate
\* (x + kx - floor(width / 2), y + ky - floor(height / 2)) as a flat index, taken to
\* the nearest bound of [0, Len(BitmapA) - 1].
SampledIndex(k, c) ==
    LET x == (k % Size.X) + (c % Filter.Size.X) - (Filter.Size.X \div 2)
        y == (k \div Size.X) + (c \div Filter.Size.X) - (Filter.Size.Y \div 2)
        flat == y * Size.X + x
    IN  IF flat < 0 THEN 0 ELSE IF flat > Len(BitmapA) - 1 THEN Len(BitmapA) - 1 ELSE flat

\* The accumulator of channel ch for output pixel k after the cells from c on, each
\* cell adding channel * (weight * Factor) + Bias to the accumulator temp.
RECURSIVE CellsAdded(_, _, _, _)
CellsAdded(k, ch, c, temp) ==
    IF temp \notin Int \/ c >= Filter.Size.X * Filter.Size.Y THEN temp
    ELSE LET weight == Filter.Filter[NFilterIndex(Filter, c % Filter.Size.X,
                                                  c \div Filter.Size.X) + 1]
             added == FAdd(FAdd(FInt(temp),
                                FMul(FInt(BitmapA[SampledIndex(k, c) + 1][ch]),
                                     FMul(weight, Filter.Factor))),
                           Filter.Bias)
         IN  CellsAdded(k, ch, c + 1, Trunc(added.n, added.d))

\* C26: in a run of ApplyBitmapFilter on a well-shaped bitmap that stays within the
\* range of a byte, kernel cell (kx, ky) samples for output pixel (x, y) the pixel
\* at the flat index (y + ky - floor(height / 2)) * Size.X + (x + kx - floor(width / 2))
\* clamped into [0, Len(Bitmap) - 1], so a cell left or right of the image samples the
\* neighbouring row, and each cell adds channel * (weight * Factor) + Bias, the bias
\* once per cell.
C26_SamplingRule ==
    ( /\ op = "ApplyBitmapFilter"
      /\ WellShaped
      /\ ~fault
      /\ fpconv = "none" )
    => /\ Len(OutBitmap) = Len(BitmapA)
       /\ \A k \in 0..(Size.X * Size.Y - 1) :
             OutBitmap[k + 1] =
                 SetPixelColourChannel(
                     FColor(CellsAdded(k, "R", 0, 0), CellsAdded(k, "G", 0, 0),
                            CellsAdded(k, "B", 0, 0),
                            IF Filter.ColourChannel = "RGBA" THEN BitmapA[k + 1].A ELSE 255),
                     Filter.ColourChannel)

\* The box blur of a 2 x 2 bitmap whose spot is the last pixel of row 0: for the
\* first pixel of row 1 the cell to its left samples the spot, in the row above.
C26_Witness ==
    /\ op = "ApplyBitmapFilter"
    /\ fpconv = "none"
    /\ ~fault
    /\ Filter = GetBitmapFilter("BoxBlur", FALSE, "RGB")
    /\ Size = FImageSize(2, 2)
    /\ BitmapA = Spot(4, FilterBackground, 2, FilterSpot)
    /\ SampledIndex(2, 3) = 1
    /\ OutBitmap[3] # OutBitmap[4]

\* The textures built from the box blur of the bitmap argument, alpha kept or opaque.
BlurredTextures ==
    { BuiltTexture([Size |-> Size,
                    Bitmap |-> ApplyBitmapFilter(BitmapA, Size,
                                                 GetBitmapFilter("BoxBlur", TRUE, c), "wrap").out])
        : c \in {"RGB", "RGBA"} }

\* C25: the completion delegate is never invoked twice, and after a call of
\* BlurBitmapAsync with a non-empty bitmap and a bound delegate it is eventually
\* invoked, once, with a texture whose pixels are the box blur of the bitmap.
C25_DeliversBlur ==
    /\ [](delegate.calls <= 1)
    /\ (op = "BlurBitmapAsync" /\ delegate.bound /\ Len(BitmapA) > 0)
          ~> (delegate.calls = 1 /\ delegate.Texture \in BlurredTextures)

\* C28: the task of BlurBitmapAsync reads Bitmap, Size and the delegate while they
\* exist: it never runs on the parameters of a call that has returned, nor on a
\* delegate that is gone.
C28_TaskReadsLiveData ==
    task.state = "done" => (~task.stale /\ delegate.alive)
====
